---- MODULE Spec2Model ----
(***************************************************************************)
(* Model of the weighted 3D transform operator (NTfm3D): the host entry    *)
(* points, the launchers, the forward kernel computeTransformedPoints and  *)
(* the backward kernel computeGradients with its block reduction and       *)
(* atomic accumulation into gradTfms.                                      *)
(*                                                                         *)
(* Tensors are flat arrays (functions on 0..n-1) addressed through their   *)
(* strides, as in the kernels.  Values are integers: the inputs drawn here *)
(* are small integers, on which float32 arithmetic is exact.               *)
(***************************************************************************)
EXTENDS Integers, Sequences, FiniteSets, Bags, TLC

VARIABLES pc, err, call, prev, ncalls, cudaErr, constTfms, stagedCount, cacheReads,
          blk, tfmpoints, gradPoints, gradMasks, gradTfms, loss, bk, barrier, shm,
          atomicLog, fv, held

vars == <<pc, err, call, prev, ncalls, cudaErr, constTfms, stagedCount, cacheReads,
          blk, tfmpoints, gradPoints, gradMasks, gradTfms, loss, bk, barrier, shm,
          atomicLog, fv, held>>

----------------------------------------------------------------------------
(* Bounds of the model *)

\* number of host calls made one after the other in one behaviour
MaxCalls == 2

----------------------------------------------------------------------------
(* Program constants *)

ConstTfmsCapacity == 15000
FwdThreads == 256
BlockDimX == 16
BlockDimY == 16
WarpSize == 32
SharedMemLimit == 32000
SizeofFloat == 4
NumTfmParams == 12

----------------------------------------------------------------------------
(* Arithmetic helpers *)

\* ceil(n * (1.0/d)) for n >= 0 and d a power of two (the product is exact)
CeilDiv(n, d) == (n + d - 1) \div d

Max(a, b) == IF a >= b THEN a ELSE b

\* the fill left out
NoFill(buf, v) == buf

\* THCudaTensor_fill(state, t, v)
Fill(buf, v) == [i \in DOMAIN buf |-> v]

\* strides of a contiguous tensor with 4 dimensions of the given sizes
ContigStrides(s0, s1, s2, s3) == <<s1 * s2 * s3, s2 * s3, s3, 1>>

----------------------------------------------------------------------------
(* Inputs of a call.  A call is described by its kind, the sizes of its    *)
(* tensors and the number of a data pattern; the tensors themselves are    *)
(* the flat arrays PointsData, MasksData, TfmsData and GradOutData.        *)

PBase == << <<1, 0, 0>>, <<1, 2, 3>>, <<-1, 2, 0>>, <<0, -2, 1>> >>
WBase == <<1, 0, 2, -1>>
GBase == << <<1, 1, 1>>, <<1, -1, 2>>, <<0, 3, -2>> >>
\* row-major 3x4 transforms: identity + translation (0,1,0); rotation by
\* 90 degrees about z + translation (1,0,2); a general affine map
TLib == << <<1, 0, 0, 0,   0, 1, 0, 1,   0, 0, 1, 0>>,
           <<0, -1, 0, 1,  1, 0, 0, 0,   0, 0, 1, 2>>,
           <<2, 1, 0, -1,  0, 1, 3, 2,   -1, 0, 1, 1>> >>

NPoints(in) == in.B * in.R * in.C
NTfmParams(in) == in.B * in.K * NumTfmParams

PointsData(in) ==
    [i \in 0..(in.B * 3 * in.R * in.C - 1) |->
        LET rc == in.R * in.C
            b  == i \div (3 * rc)
            d  == (i % (3 * rc)) \div rc
            n  == i % rc
        IN  PBase[((in.pat + b + n) % 4) + 1][d + 1]]

MasksData(in) ==
    [i \in 0..(in.B * in.K * in.R * in.C - 1) |->
        LET rc == in.R * in.C
            b  == i \div (in.K * rc)
            k  == (i % (in.K * rc)) \div rc
            n  == i % rc
        IN  IF in.pat = 2 THEN 0 ELSE WBase[((in.pat + b + k + n) % 4) + 1]]

TfmsData(in) ==
    [i \in 0..(NTfmParams(in) - 1) |->
        LET b == i \div (in.K * NumTfmParams)
            k == (i \div NumTfmParams) % in.K
            e == i % NumTfmParams
        IN  TLib[((in.pat + b + k) % 3) + 1][e + 1]]

GradOutData(in) ==
    [i \in 0..(in.B * 3 * in.R * in.C - 1) |->
        LET rc == in.R * in.C
            b  == i \div (3 * rc)
            d  == (i % (3 * rc)) \div rc
            n  == i % rc
        IN  in.alpha * GBase[((in.pat + b + 2 * n) % 3) + 1][d + 1]]

\* kernel parameters of a call: sizes and the strides of the contiguous copies
KArgs(in) ==
    [nrows |-> in.R, ncols |-> in.C, npoints |-> NPoints(in), nSE3 |-> in.K,
     batchSize |-> in.B,
     ps |-> ContigStrides(in.B, 3, in.R, in.C),
     ms |-> ContigStrides(in.B, in.K, in.R, in.C),
     ts |-> ContigStrides(in.B, in.K, 3, 4)]

NoCall == [kind |-> "none", ndim |-> 3, B |-> 0, R |-> 0, C |-> 0, K |-> 0, pat |-> 0,
           alpha |-> 1]

CallOf(kd, nd, B, R, C, K, p) ==
    [kind |-> kd, ndim |-> nd, B |-> B, R |-> R, C |-> C, K |-> K, pat |-> p, alpha |-> 1]

\* the call with its upstream gradient multiplied by al
Scaled(in, al) == [in EXCEPT !.alpha = al]

\* forward calls: the one-cell scenario; two batches of two transforms, with
\* mixed and with all-zero weights; 272 points, which take two blocks
FwdInputs ==
    { CallOf("fwd", 3, 1, 1, 1, 1, 0),
      CallOf("fwd", 3, 2, 1, 2, 2, 1),
      CallOf("fwd", 3, 2, 1, 2, 2, 2),
      CallOf("fwd", 3, 1, 17, 16, 1, 1) }

\* backward calls: the one-cell scenario, with mixed and with zero weights;
\* two transforms in one block; two batches (one block each); 32 points of
\* one batch laid out in two blocks (1 x 32) and in one block (2 x 16)
BwdInputs ==
    { CallOf("bwd", 3, 1, 1, 1, 1, 0),
      CallOf("bwd", 3, 1, 1, 1, 1, 2),
      CallOf("bwd", 3, 1, 1, 2, 2, 1),
      CallOf("bwd", 3, 2, 1, 1, 1, 1),
      CallOf("bwd", 3, 1, 1, 32, 1, 0),
      CallOf("bwd", 3, 1, 2, 16, 1, 0) }

\* calls the entry points reject: points that are not 3D, more than 15000
\* transform parameters, more shared memory than a block may have
RejectedInputs ==
    { CallOf("fwd", 2, 1, 1, 1, 1, 0),
      CallOf("fwd", 3, 1251, 1, 1, 1, 0),
      CallOf("bwd", 3, 1251, 1, 1, 1, 0),
      CallOf("bwd", 3, 1, 1, 1, 411, 0) }

Inputs == FwdInputs \cup BwdInputs \cup RejectedInputs

\* contents of memory the caller hands over uninitialised
GarbageVals == {5}

----------------------------------------------------------------------------
(* Transform cache: __constant__ float constTfms[15000].  The array is     *)
(* represented by its written prefix; entries beyond it hold the zeros of  *)
(* static initialisation.                                                  *)

CacheRead(cache, i) == IF i \in DOMAIN cache THEN cache[i] ELSE 0

\* the copy with sizeof(float) forgotten: nTfmParams bytes are copied
MemcpyToSymbolBytes(cache, tfms, n) ==
    [i \in 0..(Max(n, Cardinality(DOMAIN cache)) - 1) |->
        IF i < n \div SizeofFloat THEN tfms[i] ELSE CacheRead(cache, i)]

\* cudaMemcpyToSymbol(constTfms, tfms, nTfmParams * sizeof(float))
MemcpyToSymbol(cache, tfms, n) ==
    [i \in 0..(Max(n, Cardinality(DOMAIN cache)) - 1) |->
        IF i < n THEN tfms[i] ELSE cache[i]]

\* cache entries T[0..11] a task reads for transform k of batch b
TfmReads(cache, a, b, k) ==
    { <<b * a.ts[1] + k * a.ts[2] + e, CacheRead(cache, b * a.ts[1] + k * a.ts[2] + e)>> :
        e \in 0..(NumTfmParams - 1) }

----------------------------------------------------------------------------
(* Forward kernel *)

\* getCoordinates(id, nrows, ncols, b, r, c)
GetCoordinates(id, nrows, ncols) ==
    [b |-> id \div (nrows * ncols),
     r |-> (id % (nrows * ncols)) \div ncols,
     c |-> id % ncols]

\* FwdAccum with the point not subtracted: acc += w_k * (R_k*p + t_k)
RECURSIVE FwdAccumNoSubtract(_, _, _, _, _, _, _, _)
FwdAccumNoSubtract(k, acc, p, masks, cache, a, b, valm) ==
    IF k >= a.nSE3 THEN acc
    ELSE LET w_k == masks[k * a.ms[2] + valm]
             T(e) == CacheRead(cache, b * a.ts[1] + k * a.ts[2] + e)
             x == p[1]
             y == p[2]
             z == p[3]
         IN  FwdAccumNoSubtract(k + 1,
                 << acc[1] + w_k * (T(0) * x + T(1) * y + T(2)  * z + T(3)),
                    acc[2] + w_k * (T(4) * x + T(5) * y + T(6)  * z + T(7)),
                    acc[3] + w_k * (T(8) * x + T(9) * y + T(10) * z + T(11)) >>,
                 p, masks, cache, a, b, valm)

\* the loop over k of computeTransformedPoints: acc is <<xt, yt, zt>>
RECURSIVE FwdAccum(_, _, _, _, _, _, _, _)
FwdAccum(k, acc, p, masks, cache, a, b, valm) ==
    IF k >= a.nSE3 THEN acc
    ELSE LET w_k == masks[k * a.ms[2] + valm]
             T(e) == CacheRead(cache, b * a.ts[1] + k * a.ts[2] + e)
             x == p[1]
             y == p[2]
             z == p[3]
         IN  FwdAccum(k + 1,
                 << acc[1] + w_k * (T(0) * x + T(1) * y + T(2)  * z + T(3)  - x),
                    acc[2] + w_k * (T(4) * x + T(5) * y + T(6)  * z + T(7)  - y),
                    acc[3] + w_k * (T(8) * x + T(9) * y + T(10) * z + T(11) - z) >>,
                 p, masks, cache, a, b, valm)

\* ComputeTransformedPoints with xt, yt, zt starting from zero instead of p
ComputeTransformedPointsFromZero(points, masks, cache, a, id) ==
    IF id >= a.npoints THEN {}
    ELSE LET co   == GetCoordinates(id, a.nrows, a.ncols)
             valp == co.b * a.ps[1] + co.r * a.ps[3] + co.c * a.ps[4]
             p    == << points[0 * a.ps[2] + valp],
                        points[1 * a.ps[2] + valp],
                        points[2 * a.ps[2] + valp] >>
             valm == co.b * a.ms[1] + co.r * a.ms[3] + co.c * a.ms[4]
             t    == FwdAccum(0, <<0, 0, 0>>, p, masks, cache, a, co.b, valm)
         IN  { <<0 * a.ps[2] + valp, t[1]>>,
               <<1 * a.ps[2] + valp, t[2]>>,
               <<2 * a.ps[2] + valp, t[3]>> }

\* one task of computeTransformedPoints: the stores <<address, value>> it makes
ComputeTransformedPoints(points, masks, cache, a, id) ==
    IF id >= a.npoints THEN {}
    ELSE LET co   == GetCoordinates(id, a.nrows, a.ncols)
             valp == co.b * a.ps[1] + co.r * a.ps[3] + co.c * a.ps[4]
             p    == << points[0 * a.ps[2] + valp],
                        points[1 * a.ps[2] + valp],
                        points[2 * a.ps[2] + valp] >>
             valm == co.b * a.ms[1] + co.r * a.ms[3] + co.c * a.ms[4]
             t    == FwdAccum(0, p, p, masks, cache, a, co.b, valm)
         IN  { <<0 * a.ps[2] + valp, t[1]>>,
               <<1 * a.ps[2] + valp, t[2]>>,
               <<2 * a.ps[2] + valp, t[3]>> }

\* a buffer after the stores of a set of tasks
ApplyWrites(buf, W) ==
    LET A == { w[1] : w \in W }
    IN  [i \in DOMAIN buf |->
            IF i \in A THEN (CHOOSE w \in W : w[1] = i)[2] ELSE buf[i]]

\* the stores of the FwdThreads tasks of block bid
FwdBlockWrites(points, masks, cache, a, bid) ==
    UNION { ComputeTransformedPoints(points, masks, cache, a, id) :
              id \in (bid * FwdThreads)..(bid * FwdThreads + FwdThreads - 1) }

\* cache entries read by the tasks of forward block bid
FwdBlockReads(cache, a, bid) ==
    UNION { TfmReads(cache, a, GetCoordinates(id, a.nrows, a.ncols).b, k) :
              id \in { j \in (bid * FwdThreads)..(bid * FwdThreads + FwdThreads - 1) :
                         j < a.npoints },
              k \in 0..(a.nSE3 - 1) }

----------------------------------------------------------------------------
(* Backward kernel.  A task is named by its block g (linear index of       *)
(* blockIdx in the grid) and its tid = threadIdx.x + threadIdx.y * 16.     *)

NThreads == BlockDimX * BlockDimY
NThreads2 == NThreads \div 2
NSharedGrads == NThreads * NumTfmParams

GridX(a) == CeilDiv(a.ncols, BlockDimX)
GridY(a) == CeilDiv(a.nrows, BlockDimY)
NumGroups(a) == GridX(a) * GridY(a) * a.batchSize

\* BwdCoordinates with the block offset forgotten: c = threadIdx.x, r = threadIdx.y
BwdCoordinatesNoBlockOffset(a, g, tid) ==
    LET bz == g \div (GridX(a) * GridY(a))
        c  == tid % BlockDimX
        r  == tid \div BlockDimX
    IN  [c |-> c, r |-> r, b |-> bz,
         withinLimits |-> (c < a.ncols) /\ (r < a.nrows)]

\* c, r, b and withinLimits of task tid of block g
BwdCoordinates(a, g, tid) ==
    LET bx == g % GridX(a)
        by == (g \div GridX(a)) % GridY(a)
        bz == g \div (GridX(a) * GridY(a))
        c  == bx * BlockDimX + (tid % BlockDimX)
        r  == by * BlockDimY + (tid \div BlockDimX)
    IN  [c |-> c, r |-> r, b |-> bz,
         withinLimits |-> (c < a.ncols) /\ (r < a.nrows)]

\* what a task within limits computes for transform k: w_k, the temporaries
\* tx, ty, tz, the point p and the upstream gradient gpt
BwdTerms(points, masks, gradOut, cache, a, co, k) ==
    LET valp == co.b * a.ps[1] + co.r * a.ps[3] + co.c * a.ps[4]
        valm == co.b * a.ms[1] + co.r * a.ms[3] + co.c * a.ms[4]
        T(e) == CacheRead(cache, co.b * a.ts[1] + k * a.ts[2] + e)
        gxt  == gradOut[0 * a.ps[2] + valp]
        gyt  == gradOut[1 * a.ps[2] + valp]
        gzt  == gradOut[2 * a.ps[2] + valp]
    IN  [w_k |-> masks[k * a.ms[2] + valm],
         x |-> points[0 * a.ps[2] + valp],
         y |-> points[1 * a.ps[2] + valp],
         z |-> points[2 * a.ps[2] + valp],
         gxt |-> gxt, gyt |-> gyt, gzt |-> gzt,
         tx |-> T(0) * gxt + T(4) * gyt + T(8)  * gzt,
         ty |-> T(1) * gxt + T(5) * gyt + T(9)  * gzt,
         tz |-> T(2) * gxt + T(6) * gyt + T(10) * gzt,
         t3 |-> T(3), t7 |-> T(7), t11 |-> T(11),
         valp |-> valp, valm |-> valm]

\* GradMaskValue without the translation: p.(R^T gpt) - gpt.p
GradMaskValueNoTranslation(t) ==
    t.x * t.tx + t.y * t.ty + t.z * t.tz +
    t.gxt * (0 - t.x) + t.gyt * (0 - t.y) + t.gzt * (0 - t.z)

\* the value stored to gradMasks for transform k
GradMaskValue(t) ==
    t.x * t.tx + t.y * t.ty + t.z * t.tz +
    t.gxt * (t.t3 - t.x) + t.gyt * (t.t7 - t.y) + t.gzt * (t.t11 - t.z)

\* the translation terms stored without the upstream gradient
SharedGradValueNoUpstream(t, i) ==
    CASE i = 0  -> t.w_k * t.x * t.gxt
      [] i = 1  -> t.w_k * t.y * t.gxt
      [] i = 2  -> t.w_k * t.z * t.gxt
      [] i = 4  -> t.w_k * t.x * t.gyt
      [] i = 5  -> t.w_k * t.y * t.gyt
      [] i = 6  -> t.w_k * t.z * t.gyt
      [] i = 8  -> t.w_k * t.x * t.gzt
      [] i = 9  -> t.w_k * t.y * t.gzt
      [] i = 10 -> t.w_k * t.z * t.gzt
      [] i = 3  -> t.w_k
      [] i = 7  -> t.w_k
      [] i = 11 -> t.w_k

\* the value a task within limits stores to sharedGradTfms[i*nThreads+tid]
SharedGradValue(t, i) ==
    CASE i = 0  -> t.w_k * t.x * t.gxt
      [] i = 1  -> t.w_k * t.y * t.gxt
      [] i = 2  -> t.w_k * t.z * t.gxt
      [] i = 4  -> t.w_k * t.x * t.gyt
      [] i = 5  -> t.w_k * t.y * t.gyt
      [] i = 6  -> t.w_k * t.z * t.gyt
      [] i = 8  -> t.w_k * t.x * t.gzt
      [] i = 9  -> t.w_k * t.y * t.gzt
      [] i = 10 -> t.w_k * t.z * t.gzt
      [] i = 3  -> t.w_k * t.gxt
      [] i = 7  -> t.w_k * t.gyt
      [] i = 11 -> t.w_k * t.gzt

\* sharedGradTfms at the barrier after the stores for transform k: tasks
\* within limits store their 12 terms, the others zero their 12 slots
SharedGradStores(points, masks, gradOut, cache, a, g, k) ==
    CHOOSE sh \in
      { [idx \in 0..(NSharedGrads - 1) |->
           IF T[idx % NThreads].withinLimits
           THEN SharedGradValue(T[idx % NThreads].terms, idx \div NThreads)
           ELSE 0] :
        T \in { f \in { [tid \in 0..(NThreads - 1) |->
                          LET co == BwdCoordinates(a, g, tid)
                          IN  [withinLimits |-> co.withinLimits,
                               terms |-> IF co.withinLimits
                                         THEN BwdTerms(points, masks, gradOut, cache, a, co, k)
                                         ELSE <<>>]] } : f = f } } : TRUE

\* one round of the tree reduction with stride s: task tid < s folds the
\* parameters 0..5, task nThreads2 <= tid < nThreads2 + s the parameters 6..11
TreeRound(sh, s) ==
    [idx \in 0..(NSharedGrads - 1) |->
        LET i   == idx \div NThreads
            j   == idx % NThreads
            tid == IF i < 6 THEN j ELSE j + NThreads2
        IN  IF (i < 6 /\ tid < s) \/ (i >= 6 /\ tid >= NThreads2 /\ tid - NThreads2 < s)
            THEN sh[idx] + sh[idx + s]
            ELSE sh[idx]]

\* for (s = nThreads2; s >= 32; s >>= 1)
RECURSIVE TreeReduce(_, _)
TreeReduce(sh, s) ==
    IF s >= WarpSize THEN TreeReduce(TreeRound(sh, s), s \div 2) ELSE sh

\* warpReduceSum over the lanes of the first warp: val += __shfl_down(val, offset)
\* for offset = 16, 8, 4, 2, 1; a lane whose source is outside the warp gets
\* its own value
RECURSIVE WarpReduceSum(_, _)
WarpReduceSum(v, offset) ==
    IF offset = 0 THEN v
    ELSE CHOOSE r \in
           { WarpReduceSum([l \in 0..(WarpSize - 1) |->
                              u[l] + (IF l + offset < WarpSize THEN u[l + offset] ELSE u[l])],
                           offset \div 2) : u \in {v} } : TRUE

\* sharedGradTfmResults of block g at the final barrier
SharedGradTfmResults(points, masks, gradOut, cache, a, g) ==
    [j \in 0..(a.nSE3 * NumTfmParams - 1) |->
        LET k  == j \div NumTfmParams
            i  == j % NumTfmParams
            sh == TreeReduce(SharedGradStores(points, masks, gradOut, cache, a, g, k),
                             NThreads2)
        IN  WarpReduceSum([l \in 0..(WarpSize - 1) |-> sh[i * NThreads + l]],
                          WarpSize \div 2)[0]]

\* GradPointAccum with the upstream gradient not subtracted: acc += w_k * R^T gpt
RECURSIVE GradPointAccumNoSubtract(_, _, _, _, _, _, _, _)
GradPointAccumNoSubtract(k, acc, points, masks, gradOut, cache, a, co) ==
    IF k >= a.nSE3 THEN acc
    ELSE LET t == BwdTerms(points, masks, gradOut, cache, a, co, k)
         IN  GradPointAccumNoSubtract(k + 1,
                 << acc[1] + t.w_k * t.tx,
                    acc[2] + t.w_k * t.ty,
                    acc[3] + t.w_k * t.tz >>,
                 points, masks, gradOut, cache, a, co)

\* the loop over k for the gradient w.r.t. the input point: acc is <<gx, gy, gz>>
RECURSIVE GradPointAccum(_, _, _, _, _, _, _, _)
GradPointAccum(k, acc, points, masks, gradOut, cache, a, co) ==
    IF k >= a.nSE3 THEN acc
    ELSE LET t == BwdTerms(points, masks, gradOut, cache, a, co, k)
         IN  GradPointAccum(k + 1,
                 << acc[1] + t.w_k * (t.tx - t.gxt),
                    acc[2] + t.w_k * (t.ty - t.gyt),
                    acc[3] + t.w_k * (t.tz - t.gzt) >>,
                 points, masks, gradOut, cache, a, co)

\* the addresses a task at co stores to in gradMasks, in the order of its
\* stores: one for each transform if it is within the limits, none otherwise
TaskMaskStores(a, co) ==
    IF co.withinLimits
    THEN [k \in 1..a.nSE3 |->
            (k - 1) * a.ms[2] + co.b * a.ms[1] + co.r * a.ms[3] + co.c * a.ms[4]]
    ELSE <<>>

\* the stores to gradPoints without the check of the limits
TaskPointStoresUnguarded(a, co) ==
    [ch \in 1..3 |->
        (ch - 1) * a.ps[2] + co.b * a.ps[1] + co.r * a.ps[3] + co.c * a.ps[4]]

\* the addresses a task at co stores to in gradPoints, in the order of its
\* stores: gx, gy, gz if it is within the limits, none otherwise
TaskPointStores(a, co) ==
    IF co.withinLimits
    THEN [ch \in 1..3 |->
            (ch - 1) * a.ps[2] + co.b * a.ps[1] + co.r * a.ps[3] + co.c * a.ps[4]]
    ELSE <<>>

\* tids of block g that are within limits
WithinTids(a, g) == { tid \in 0..(NThreads - 1) : BwdCoordinates(a, g, tid).withinLimits }

\* gx, gy, gz of the tasks within limits at the final barrier
BwdRegisters(points, masks, gradOut, cache, a, g) ==
    [tid \in WithinTids(a, g) |->
        LET co   == BwdCoordinates(a, g, tid)
            valp == co.b * a.ps[1] + co.r * a.ps[3] + co.c * a.ps[4]
        IN  GradPointAccum(0, << gradOut[0 * a.ps[2] + valp],
                                 gradOut[1 * a.ps[2] + valp],
                                 gradOut[2 * a.ps[2] + valp] >>,
                           points, masks, gradOut, cache, a, co)]

\* the stores to gradMasks of the tasks of block g
GradMaskWrites(points, masks, gradOut, cache, a, g) ==
    { << k * a.ms[2] + BwdTerms(points, masks, gradOut, cache, a,
                                BwdCoordinates(a, g, tid), k).valm,
         GradMaskValue(BwdTerms(points, masks, gradOut, cache, a,
                                BwdCoordinates(a, g, tid), k)) >> :
        tid \in WithinTids(a, g), k \in 0..(a.nSE3 - 1) }

\* the stores to gradMasks of the tasks of block g in round k of the loop
\* over the transforms
GradMaskWritesOf(points, masks, gradOut, cache, a, g, k) ==
    { << k * a.ms[2] + t.valm, GradMaskValue(t) >> :
        t \in { BwdTerms(points, masks, gradOut, cache, a, BwdCoordinates(a, g, tid), k) :
                  tid \in WithinTids(a, g) } }

\* gx, gy, gz of the tasks within limits after round k of the loop, regs
\* being what they were before it (gxt, gyt, gzt before round 0)
BwdRegistersAfter(points, masks, gradOut, cache, a, g, k, regs) ==
    [tid \in WithinTids(a, g) |->
        LET co   == BwdCoordinates(a, g, tid)
            valp == co.b * a.ps[1] + co.r * a.ps[3] + co.c * a.ps[4]
        IN  GradPointAccum(k,
                           IF k = 0
                           THEN << gradOut[0 * a.ps[2] + valp],
                                   gradOut[1 * a.ps[2] + valp],
                                   gradOut[2 * a.ps[2] + valp] >>
                           ELSE regs[tid],
                           points, masks, gradOut, cache, [a EXCEPT !.nSE3 = k + 1], co)]

\* cache entries read by the tasks of backward block g in round k
BwdBlockReadsOf(cache, a, g, k) ==
    UNION { TfmReads(cache, a, BwdCoordinates(a, g, tid).b, k) : tid \in WithinTids(a, g) }

\* the stores to gradPoints of the tasks of block g, from their registers
GradPointWrites(a, g, regs) ==
    UNION { LET co   == BwdCoordinates(a, g, tid)
                valp == co.b * a.ps[1] + co.r * a.ps[3] + co.c * a.ps[4]
            IN  { <<0 * a.ps[2] + valp, regs[tid][1]>>,
                  <<1 * a.ps[2] + valp, regs[tid][2]>>,
                  <<2 * a.ps[2] + valp, regs[tid][3]>> } :
            tid \in DOMAIN regs }

\* cache entries read by the tasks of backward block g
BwdBlockReads(cache, a, g) ==
    UNION { TfmReads(cache, a, BwdCoordinates(a, g, tid).b, k) :
              tid \in WithinTids(a, g), k \in 0..(a.nSE3 - 1) }

\* a plain store in place of the atomic add
PlainStore(buf, addr, val) == [buf EXCEPT ![addr] = val]

\* atomicAdd(address, val)
AtomicAdd(buf, addr, val) == [buf EXCEPT ![addr] = @ + val]

\* every task merging every result slot, as if each point were merged
TaskMergeSlotsEveryTask(K, tid) == 0..(K * NumTfmParams - 1)

\* the result slots task tid merges into gradTfms:
\* for (i = tid; i < nSE3*12; i += nThreads)
TaskMergeSlots(K, tid) ==
    { tid + n * NThreads : n \in 0..((K * NumTfmParams - 1 - tid) \div NThreads) }

----------------------------------------------------------------------------
(* The contiguous copies an entry point holds.  THCudaTensor_newContiguous  *)
(* and THFloatTensor_newContiguous hand out a tensor the caller of them has *)
(* to free; held records, for the call in progress, the tensors acquired    *)
(* and the frees, by the name of the variable that holds the tensor.        *)

NoTensors == [acquired |-> EmptyBag, freed |-> EmptyBag]

\* the newContiguous calls of an entry point
Acquired(names) == [acquired |-> SetToBag(names), freed |-> EmptyBag]

\* the free calls of an entry point
Freed(h, names) == [h EXCEPT !.freed = @ (+) SetToBag(names)]

\* the forward and backward of the transform layer
NTfmContiguous == {"points", "masks", "tfms"}
NTfmFreed == {"points", "masks", "tfms"}

\* the forward and backward of the fused loss
LossContiguous == {"points", "masks", "tfms", "targetpoints"}
LossFreed == {"points", "masks", "tfms", "targetpoints"}

\* ComputeFlowAndVisibility_Pts_float
FlowContiguous ==
    {"cloud_1", "cloud_2", "label_1", "label_2", "poses_1", "poses_2",
     "poseinvs_1", "poseinvs_2", "fwdflows", "bwdflows", "fwdvisibility",
     "bwdvisibility", "local_1", "local_2"}
FlowFreed ==
    {"cloud_1", "cloud_2", "label_1", "label_2", "poses_1", "poses_2",
     "fwdflows", "bwdflows", "fwdvisibility", "bwdvisibility", "local_1", "local_2"}

----------------------------------------------------------------------------
(* Host entry points and launchers *)

\* what the fused loss entry points hold: the averaging flag, the launcher's
\* summed error L, the upstream scalar gradient go, the float in use (loss or
\* norm) as a fraction <<numerator, denominator>>, the value returned
NoLoss == [avg |-> FALSE, L |-> 0, go |-> 0, val |-> <<0, 1>>, ret |-> 0]

\* a block of a launched kernel that has not run yet: the segment it is to
\* run next, its sharedGradTfms and the written prefix of its
\* sharedGradTfmResults, the registers gx, gy, gz of its tasks within the
\* limits, the warps that have run the code after the last barrier
ReadyBlock == [phase |-> "ready", seg |-> 1, sh |-> <<>>, results |-> <<>>,
               regs |-> <<>>, merged |-> {}]

\* the check turning down a call that fills the constant memory exactly
TfmCapacityReached(nTfmParams) == nTfmParams >= ConstTfmsCapacity

\* the check of the transform count against the constant memory
TfmCapacityExceeded(nTfmParams) == nTfmParams > ConstTfmsCapacity

\* THCudaTensor_resizeAs: the storage keeps what it held
ResizeAs(buf, n, gv) == [i \in 0..(n - 1) |-> IF i \in DOMAIN buf THEN buf[i] ELSE gv]

\* assert(ndim == 3)
NdimOK(in) == in.ndim = 3

\* the host not waiting for the kernel
DeviceNotAwaited == TRUE

\* cudaDeviceSynchronize returns once every block of the kernel has finished
DeviceSynchronized == {b \in DOMAIN blk : blk[b].phase # "done"} = {}

\* a failed check that prints its message and lets the call go on to return
AbortReturns(e, in) ==
    /\ pc' = "returned"
    /\ err' = e
    /\ call' = in
    /\ prev' = call
    /\ ncalls' = ncalls + 1

\* printf of the message and assert(false): the call ends here
Abort(e, in) ==
    /\ pc' = "aborted"
    /\ err' = e
    /\ call' = in
    /\ prev' = call
    /\ ncalls' = ncalls + 1

\* NTfm3D forward: host wrapper, then NTfm3D_ForwardLauncher up to the launch
Forward(in) ==
    /\ pc \in {"idle", "returned"}
    /\ ncalls < MaxCalls
    /\ in.kind = "fwd"
    /\ IF ~NdimOK(in)
       THEN /\ Abort("AssertionFailed", in)
            /\ UNCHANGED <<cudaErr, constTfms, stagedCount, cacheReads, blk,
                           tfmpoints, gradPoints, gradMasks, gradTfms>>
       ELSE IF TfmCapacityExceeded(NTfmParams(in))
       THEN /\ Abort("CapacityExceeded", in)
            /\ UNCHANGED <<cudaErr, constTfms, stagedCount, cacheReads, blk,
                           tfmpoints, gradPoints, gradMasks, gradTfms>>
       ELSE /\ \E gv \in GarbageVals :
                 tfmpoints' = ResizeAs(tfmpoints, 3 * NPoints(in), gv)
            /\ constTfms' = MemcpyToSymbol(constTfms, TfmsData(in), NTfmParams(in))
            /\ stagedCount' = NTfmParams(in)
            /\ cacheReads' = {}
            /\ \E launchOK \in BOOLEAN :
                 /\ cudaErr' = ~launchOK
                 /\ blk' = IF launchOK
                           THEN [b \in 0..(CeilDiv(NPoints(in), FwdThreads) - 1) |->
                                    ReadyBlock]
                           ELSE <<>>
            /\ pc' = "running"
            /\ err' = "none"
            /\ call' = in
            /\ prev' = call
            /\ ncalls' = ncalls + 1
            /\ UNCHANGED <<gradPoints, gradMasks, gradTfms>>
    /\ UNCHANGED <<loss, bk, barrier, shm, atomicLog>>
    /\ UNCHANGED fv
    /\ held' = IF NdimOK(in) /\ ~TfmCapacityExceeded(NTfmParams(in))
               THEN Acquired(NTfmContiguous) ELSE NoTensors

\* one block of computeTransformedPoints
FwdBlock(bid) ==
    /\ call.kind = "fwd"
    /\ bid \in DOMAIN blk
    /\ blk[bid].phase = "ready"
    /\ tfmpoints' = ApplyWrites(tfmpoints,
                        FwdBlockWrites(PointsData(call), MasksData(call), constTfms,
                                       KArgs(call), bid))
    /\ cacheReads' = cacheReads \cup FwdBlockReads(constTfms, KArgs(call), bid)
    /\ blk' = [blk EXCEPT ![bid].phase = "done"]
    /\ UNCHANGED <<pc, err, call, prev, ncalls, cudaErr, constTfms, stagedCount,
                   gradPoints, gradMasks, gradTfms>>
    /\ UNCHANGED <<loss, bk, barrier, shm, atomicLog>>
    /\ UNCHANGED fv
    /\ UNCHANGED held

\* the bytes of shared memory the backward launcher asks for per block
SharedMemSize(nSE3) ==
    BlockDimX * BlockDimY * 3 * 4 * SizeofFloat + nSE3 * 3 * 4 * SizeofFloat

\* the launcher without its check of the shared memory size
SharedMemUnchecked(nSE3) == FALSE

\* if (sharedMemSize > 32000)
SharedMemExceeded(nSE3) == SharedMemSize(nSE3) > SharedMemLimit

\* the gradient tensor of n elements the caller passes: the one of the call
\* before when the size agrees, its memory is whatever it held
CallerBuffer(buf, n, gv) == ResizeAs(buf, n, gv)

\* NTfm3D backward: host wrapper, then NTfm3D_BackwardLauncher up to the launch
Backward(in) ==
    /\ pc \in {"idle", "returned"}
    /\ ncalls < MaxCalls
    /\ in.kind = "bwd"
    /\ IF ~NdimOK(in)
       THEN /\ Abort("AssertionFailed", in)
            /\ UNCHANGED <<cudaErr, constTfms, stagedCount, cacheReads, blk,
                           tfmpoints, gradPoints, gradMasks, gradTfms>>
       ELSE IF TfmCapacityExceeded(NTfmParams(in))
       THEN /\ Abort("CapacityExceeded", in)
            /\ UNCHANGED <<cudaErr, constTfms, stagedCount, cacheReads, blk,
                           tfmpoints, gradPoints, gradMasks, gradTfms>>
       ELSE /\ \E gv \in GarbageVals :
                 /\ gradPoints' = Fill(CallerBuffer(gradPoints, 3 * NPoints(in), gv), 0)
                 /\ gradMasks' = CallerBuffer(gradMasks, in.K * NPoints(in), gv)
                 /\ gradTfms' = Fill(CallerBuffer(gradTfms, NTfmParams(in), gv), 0)
            /\ constTfms' = MemcpyToSymbol(constTfms, TfmsData(in), NTfmParams(in))
            /\ stagedCount' = NTfmParams(in)
            /\ cacheReads' = {}
            /\ call' = in
            /\ prev' = call
            /\ ncalls' = ncalls + 1
            /\ IF SharedMemExceeded(in.K)
               THEN /\ pc' = "aborted"
                    /\ err' = "CapacityExceeded"
                    /\ UNCHANGED <<cudaErr, blk>>
               ELSE /\ \E launchOK \in BOOLEAN :
                         /\ cudaErr' = ~launchOK
                         /\ blk' = IF launchOK
                                   THEN [g \in 0..(NumGroups(KArgs(in)) - 1) |-> ReadyBlock]
                                   ELSE <<>>
                    /\ pc' = "running"
                    /\ err' = "none"
            /\ UNCHANGED tfmpoints
    /\ atomicLog' = EmptyBag
    /\ UNCHANGED <<loss, bk, barrier, shm>>
    /\ UNCHANGED fv
    /\ held' = IF NdimOK(in) /\ ~TfmCapacityExceeded(NTfmParams(in))
               THEN Acquired(NTfmContiguous) ELSE NoTensors

(* computeGradients of block g, from barrier to barrier.  The code of a     *)
(* block is cut into segments: for each transform k the stores (up to the   *)
(* barrier that follows them), the rounds of the halving loop (each up to   *)
(* its barrier) and the warp-level finish (followed, for the last k, by the *)
(* barrier after the loop); at the end the merge into gradTfms with the     *)
(* stores to gradPoints, which no barrier divides and which the warps of    *)
(* the block run in any order.  The blocks of a launch run in any order.    *)

NWarps == NThreads \div WarpSize
Lanes(w) == (w * WarpSize)..(w * WarpSize + WarpSize - 1)

\* the strides of for (s = nThreads2; s >= 32; s >>= 1)
RECURSIVE HalvingStrides(_)
HalvingStrides(s) == IF s >= WarpSize THEN <<s>> \o HalvingStrides(s \div 2) ELSE <<>>

SegsPerTfm == Len(HalvingStrides(NThreads2)) + 2
NumSegs(K) == K * SegsPerTfm + 1

\* segment n of a block with K transforms
Seg(n, K) ==
    IF n = NumSegs(K) THEN [op |-> "merge", k |-> K, s |-> 0]
    ELSE LET k == (n - 1) \div SegsPerTfm
             r == (n - 1) % SegsPerTfm
         IN  IF r = 0 THEN [op |-> "store", k |-> k, s |-> 0]
             ELSE IF r = SegsPerTfm - 1 THEN [op |-> "finish", k |-> k, s |-> 0]
             ELSE [op |-> "round", k |-> k, s |-> HalvingStrides(NThreads2)[r]]

\* the warps of block g with a task that takes a result slot or holds a point
\* within the limits; the other warps pass l.257-266 without a load or store
WorkingWarps(a, g) ==
    { w \in 0..(NWarps - 1) :
        \E tid \in Lanes(w) : \/ TaskMergeSlots(a.nSE3, tid) # {}
                              \/ BwdCoordinates(a, g, tid).withinLimits }

\* the atomic adds of the results in the slots S into gradTfms
MergeAtomicAdds(buf, base, results, S) ==
    [j \in DOMAIN buf |->
        IF j - base \in S THEN AtomicAdd(buf, j, results[j - base])[j] ELSE buf[j]]

\* the atomicAdd calls of the tasks L of block g, as a bag of
\* <<block, address>>: one call for each task and each slot it takes
MergeAtomicsIssued(a, g, L) ==
    CHOOSE bag \in
      { [e \in { <<g, base + i>> : i \in UNION { S[tid] : tid \in L } }
           |-> Cardinality({ tid \in L : e[2] - base \in S[tid] })] :
        base \in {BwdCoordinates(a, g, 0).b * a.ts[1]},
        S \in { f \in { [tid \in L |-> TaskMergeSlots(a.nSE3, tid)] } : f = f } } : TRUE

\* block g in round k of its loop over the transforms, up to the barrier
\* after the stores: the reads of the cache, the registers gx, gy, gz, the
\* stores to gradMasks and the stores of the 12 terms to sharedGradTfms
BwdStore(g) ==
    /\ call.kind = "bwd"
    /\ g \in DOMAIN blk
    /\ blk[g].phase \in {"ready", "running"}
    /\ Seg(blk[g].seg, call.K).op = "store"
    /\ \E a \in {KArgs(call)}, P \in {PointsData(call)}, M \in {MasksData(call)},
          G \in {GradOutData(call)}, k \in {Seg(blk[g].seg, call.K).k} :
         /\ \E mw \in {GradMaskWritesOf(P, M, G, constTfms, a, g, k)} :
              gradMasks' = ApplyWrites(gradMasks, mw)
         /\ blk' = [blk EXCEPT
                      ![g].phase = "running",
                      ![g].seg = @ + 1,
                      ![g].sh = SharedGradStores(P, M, G, constTfms, a, g, k),
                      ![g].regs = BwdRegistersAfter(P, M, G, constTfms, a, g, k,
                                                    blk[g].regs)]
         /\ cacheReads' = cacheReads \cup BwdBlockReadsOf(constTfms, a, g, k)
    /\ UNCHANGED <<pc, err, call, prev, ncalls, cudaErr, constTfms, stagedCount,
                   tfmpoints, gradPoints, gradTfms>>
    /\ UNCHANGED <<loss, bk, barrier, shm, atomicLog>>
    /\ UNCHANGED fv
    /\ UNCHANGED held

\* block g in one round of the halving loop, up to the barrier in the loop
BwdHalve(g) ==
    /\ call.kind = "bwd"
    /\ g \in DOMAIN blk
    /\ blk[g].phase = "running"
    /\ Seg(blk[g].seg, call.K).op = "round"
    /\ blk' = [blk EXCEPT
                 ![g].seg = @ + 1,
                 ![g].sh = TreeRound(blk[g].sh, Seg(blk[g].seg, call.K).s)]
    /\ UNCHANGED <<pc, err, call, prev, ncalls, cudaErr, constTfms, stagedCount, cacheReads,
                   tfmpoints, gradPoints, gradMasks, gradTfms>>
    /\ UNCHANGED <<loss, bk, barrier, shm, atomicLog>>
    /\ UNCHANGED fv
    /\ UNCHANGED held

\* block g in the warp-level finish of round k: the first warp sums the 32
\* partial sums of each of the 12 terms and task 0 stores the sums to
\* sharedGradTfmResults[k*12 .. k*12 + 11]; after the last round the block
\* stands at the barrier that follows the loop
BwdFinish(g) ==
    /\ call.kind = "bwd"
    /\ g \in DOMAIN blk
    /\ blk[g].phase = "running"
    /\ Seg(blk[g].seg, call.K).op = "finish"
    /\ \E k \in {Seg(blk[g].seg, call.K).k}, sh \in {blk[g].sh} :
         blk' = [blk EXCEPT
                   ![g].seg = @ + 1,
                   ![g].results =
                      [j \in 0..((k + 1) * NumTfmParams - 1) |->
                         IF j < k * NumTfmParams THEN blk[g].results[j]
                         ELSE WarpReduceSum(
                                [l \in 0..(WarpSize - 1) |->
                                   sh[(j - k * NumTfmParams) * NThreads + l]],
                                WarpSize \div 2)[0]]]
    /\ UNCHANGED <<pc, err, call, prev, ncalls, cudaErr, constTfms, stagedCount, cacheReads,
                   tfmpoints, gradPoints, gradMasks, gradTfms>>
    /\ UNCHANGED <<loss, bk, barrier, shm, atomicLog>>
    /\ UNCHANGED fv
    /\ UNCHANGED held

\* warp w of block g after the last barrier: its tasks add the result slots
\* they take into gradTfms, and those within the limits store gx, gy, gz to
\* gradPoints
BwdMerge(g, w) ==
    /\ call.kind = "bwd"
    /\ g \in DOMAIN blk
    /\ blk[g].phase = "running"
    /\ Seg(blk[g].seg, call.K).op = "merge"
    /\ w \notin blk[g].merged
    /\ \E a \in {KArgs(call)}, L \in {Lanes(w)} :
         /\ w \in WorkingWarps(a, g)
         /\ \E S \in {UNION { TaskMergeSlots(a.nSE3, tid) : tid \in L }} :
              gradTfms' = MergeAtomicAdds(gradTfms, BwdCoordinates(a, g, 0).b * a.ts[1],
                                          blk[g].results, S)
         /\ atomicLog' = atomicLog (+) MergeAtomicsIssued(a, g, L)
         /\ gradPoints' = ApplyWrites(gradPoints,
                             GradPointWrites(a, g, [tid \in L \cap DOMAIN blk[g].regs |->
                                                      blk[g].regs[tid]]))
         /\ blk' = [blk EXCEPT
                      ![g].merged = @ \cup {w},
                      ![g].phase = IF blk[g].merged \cup {w} = WorkingWarps(a, g)
                                   THEN "done" ELSE "running"]
    /\ UNCHANGED <<pc, err, call, prev, ncalls, cudaErr, constTfms, stagedCount, cacheReads,
                   tfmpoints, gradMasks>>
    /\ UNCHANGED <<loss, bk, barrier, shm>>
    /\ UNCHANGED fv
    /\ UNCHANGED held

\* cudaDeviceSynchronize, the error check and the return to the caller
Sync ==
    /\ pc = "running"
    /\ DeviceSynchronized
    /\ IF cudaErr
       THEN /\ pc' = "aborted"
            /\ err' = "ExecutionFailure"
       ELSE /\ pc' = "returned"
            /\ err' = "none"
    /\ UNCHANGED <<call, prev, ncalls, cudaErr, constTfms, stagedCount, cacheReads, blk,
                   tfmpoints, gradPoints, gradMasks, gradTfms>>
    /\ UNCHANGED <<loss, bk, barrier, shm, atomicLog>>
    /\ UNCHANGED fv
    /\ held' = IF cudaErr THEN held ELSE Freed(held, NTfmFreed)

----------------------------------------------------------------------------
(* computeGradients of one block, warp by warp.  A warp runs the code       *)
(* between two barriers in one step, its 32 lanes in lock step; the warps   *)
(* of the block run in any order.  The code of a block is cut into          *)
(* segments: for each transform k the stores of the 12 terms, the halving   *)
(* rounds and the warp-level finish, and at the end the merge into          *)
(* gradTfms with the stores to gradPoints.  Scratch slot idx is             *)
(* sharedData[idx]: sharedGradTfms, then sharedGradTfmResults.              *)

\* the block that runs warp by warp: its id (-1: none), the segment each
\* warp is at, the warps waiting at the barrier, the transforms whose result
\* slots are set
NoBlockRun == [g |-> -1, wpos |-> <<>>, atbar |-> {}, finished |-> {}]

\* the barrier of that block: the tasks that have arrived and wait, and how
\* many times each task has arrived at a barrier
NoBarrier == [waiting |-> {}, arrivals |-> <<>>]

\* the scratch memory of that block: sharedData, per slot the task that
\* wrote and the task that read it since the last barrier (-1: none, -2:
\* several), and the slots found raced on.  The slots are kept in chunks:
\* slot idx of sharedData is sh[Chunk(idx)][idx]
NoScratch == [sh |-> <<>>, wr |-> <<>>, rd |-> <<>>, races |-> {}]

\* the halving loop without its barrier
NoBarrierInHalving(seg, K) ==
    seg.op = "store" \/ (seg.op = "finish" /\ seg.k = K - 1)

\* __syncthreads() follows the stores, every halving round and, after the
\* loop over the transforms, the last warp-level finish
BarrierAfter(seg, K) ==
    seg.op \in {"store", "round"} \/ (seg.op = "finish" /\ seg.k = K - 1)

\* a task outside the limits leaving the kernel at once
ReachesBarrierWithinLimits(a, g, tid) == BwdCoordinates(a, g, tid).withinLimits

\* every task goes on to the barriers: the branch for a task outside the
\* limits zeroes its slots, nothing returns before the end of the kernel
ReachesBarrier(a, g, tid) == TRUE

ScratchSlots(K) == 0..(NSharedGrads + K * NumTfmParams - 1)

(* The loops over i make a task access six slots of sharedGradTfms at a     *)
(* time: i*nThreads + j for the rows i of one half (0..5 or 6..11) and one  *)
(* column j.  The model keeps these six slots together as one cell,         *)
(* h*nThreads + j for half h, holding the six values; the slots of          *)
(* sharedGradTfmResults are cells of their own, NCells + k*12 + i.  The     *)
(* cells are kept in chunks of 32: cell c of a memory is mem[Chunk(c)][c].  *)
NCells == 2 * NThreads
NChunks == NCells \div WarpSize
RowsPerCell == NumTfmParams \div 2

\* the scratch slots a cell stands for
CellSlots(c) ==
    IF c >= NCells THEN {NSharedGrads + (c - NCells)}
    ELSE { i * NThreads + (c % NThreads) :
           i \in (RowsPerCell * (c \div NThreads))..(RowsPerCell * (c \div NThreads) + 5) }

Chunk(c) == IF c >= NCells THEN NChunks ELSE c \div WarpSize

ChunkCells(ch, K) ==
    IF ch = NChunks THEN NCells..(NCells + K * NumTfmParams - 1)
    ELSE (ch * WarpSize)..(ch * WarpSize + WarpSize - 1)

\* cell c of a memory kept in chunks
At(mem, c) == mem[Chunk(c)][c]

\* slot idx of a scratch memory
SlotAt(sh, idx) ==
    IF idx >= NSharedGrads THEN At(sh, NCells + idx - NSharedGrads)
    ELSE At(sh, ((idx \div NThreads) \div RowsPerCell) * NThreads + (idx % NThreads))
           [(idx \div NThreads) % RowsPerCell]

\* a scratch memory holding v in every slot
FilledScratch(K, v) ==
    [ch \in 0..NChunks |->
        [c \in ChunkCells(ch, K) |->
            IF ch = NChunks THEN v ELSE [i \in 0..(RowsPerCell - 1) |-> v]]]

\* an access log with v for every cell
FilledLog(K, v) == [ch \in 0..NChunks |-> [c \in ChunkCells(ch, K) |-> v]]

\* the task that writes cell c in a segment, -1 when none does
CellWriter(seg, c) ==
    CASE seg.op = "store" -> IF c < NCells THEN c % NThreads ELSE -1
      [] seg.op = "round" ->
            IF c >= NCells \/ c % NThreads >= seg.s THEN -1
            ELSE IF c < NThreads THEN c ELSE c - NThreads + NThreads2
      [] seg.op = "finish" ->
            IF c >= NCells /\ (c - NCells) \div NumTfmParams = seg.k THEN 0 ELSE -1
      [] seg.op = "merge" -> -1

\* the task that reads cell c in a segment, -1 when none does
CellReader(seg, c) ==
    CASE seg.op = "store" -> -1
      [] seg.op = "round" ->
            IF c >= NCells \/ c % NThreads >= 2 * seg.s THEN -1
            ELSE (IF c % NThreads < seg.s THEN c % NThreads ELSE (c % NThreads) - seg.s)
                 + (IF c < NThreads THEN 0 ELSE NThreads2)
      [] seg.op = "finish" -> IF c < NCells /\ c % NThreads < WarpSize THEN c % NThreads ELSE -1
      [] seg.op = "merge" -> IF c >= NCells THEN (c - NCells) % NThreads ELSE -1

\* the 12 terms of transform k each task of L stores: zeros for a task
\* outside the limits
TaskContributions(points, masks, gradOut, cache, a, g, k, L) ==
    [tid \in L |->
        IF BwdCoordinates(a, g, tid).withinLimits
        THEN CHOOSE v \in { [i \in 0..(NumTfmParams - 1) |-> SharedGradValue(t, i)] :
                            t \in { BwdTerms(points, masks, gradOut, cache, a, co, k) :
                                    co \in {BwdCoordinates(a, g, tid)} } } : TRUE
        ELSE [i \in 0..(NumTfmParams - 1) |-> 0]]

\* a halving round that keeps the cell and folds nothing into it
CellValueNoFold(seg, c, sh, contrib) ==
    CASE seg.op = "store" ->
            [i \in 0..(RowsPerCell - 1) |->
                contrib[c % NThreads][RowsPerCell * (c \div NThreads) + i]]
      [] seg.op = "round" -> At(sh, c)
      [] seg.op = "finish" ->
            WarpReduceSum([l \in 0..(WarpSize - 1) |->
                             SlotAt(sh, ((c - NCells) % NumTfmParams) * NThreads + l)],
                          WarpSize \div 2)[0]

\* the value its writer leaves in cell c in a segment
CellValue(seg, c, sh, contrib) ==
    CASE seg.op = "store" ->
            [i \in 0..(RowsPerCell - 1) |->
                contrib[c % NThreads][RowsPerCell * (c \div NThreads) + i]]
      [] seg.op = "round" ->
            [i \in 0..(RowsPerCell - 1) |-> At(sh, c)[i] + At(sh, c + seg.s)[i]]
      [] seg.op = "finish" ->
            WarpReduceSum([l \in 0..(WarpSize - 1) |->
                             SlotAt(sh, ((c - NCells) % NumTfmParams) * NThreads + l)],
                          WarpSize \div 2)[0]

\* the cells task tid writes in a segment
TaskWrites(seg, tid) ==
    CASE seg.op = "store" -> {tid, NThreads + tid}
      [] seg.op = "round" ->
            IF tid < seg.s THEN {tid}
            ELSE IF tid >= NThreads2 /\ tid - NThreads2 < seg.s
            THEN {NThreads + tid - NThreads2}
            ELSE {}
      [] seg.op = "finish" ->
            IF tid = 0
            THEN { NCells + seg.k * NumTfmParams + i : i \in 0..(NumTfmParams - 1) }
            ELSE {}
      [] seg.op = "merge" -> {}

\* the cells task tid reads in a segment of a block with K transforms
TaskReads(seg, tid, K) ==
    CASE seg.op = "store" -> {}
      [] seg.op = "round" ->
            TaskWrites(seg, tid) \cup { c + seg.s : c \in TaskWrites(seg, tid) }
      [] seg.op = "finish" -> IF tid < WarpSize THEN {tid, NThreads + tid} ELSE {}
      [] seg.op = "merge" ->
            { NCells + i : i \in { j \in 0..(K * NumTfmParams - 1) : j % NThreads = tid } }

\* the access of tasks L to cell c meets an access of another task made
\* since the last barrier, one of the two a write
CellRaced(seg, c, L, wr, rd) ==
    \/ /\ CellWriter(seg, c) \in L
       /\ \/ At(wr, c) \notin {-1, CellWriter(seg, c)}
          \/ At(rd, c) \notin {-1, CellWriter(seg, c)}
          \/ CellReader(seg, c) \in L /\ CellReader(seg, c) # CellWriter(seg, c)
    \/ /\ CellReader(seg, c) \in L
       /\ At(wr, c) \notin {-1, CellReader(seg, c)}

\* the reader recorded for a cell after task r has read it
ReaderLog(old, r) == IF old = -1 \/ old = r THEN r ELSE -2

\* the segment a warp goes on to: a warp-level finish that no barrier follows
\* is nothing to a warp without a task below 32
NextPos(w, n, K) ==
    IF /\ n + 1 <= NumSegs(K)
       /\ Seg(n + 1, K).op = "finish"
       /\ ~BarrierAfter(Seg(n + 1, K), K)
       /\ Lanes(w) \cap (0..(WarpSize - 1)) = {}
    THEN n + 2
    ELSE n + 1

\* a block starts to run: its scratch memory holds whatever it held
BlkBegin(g) ==
    /\ call.kind = "bwd"
    /\ g \in DOMAIN blk
    /\ blk[g].phase = "ready"
    /\ bk.g = -1
    /\ bk' = [g |-> g, wpos |-> [w \in 0..(NWarps - 1) |-> 1], atbar |-> {},
              finished |-> {}]
    /\ barrier' = [waiting |-> {}, arrivals |-> [tid \in 0..(NThreads - 1) |-> 0]]
    /\ \E gv \in GarbageVals :
         shm' = [sh |-> FilledScratch(call.K, gv),
                 wr |-> FilledLog(call.K, -1),
                 rd |-> FilledLog(call.K, -1),
                 races |-> {}]
    /\ blk' = [blk EXCEPT ![g].phase = "running"]
    /\ UNCHANGED <<pc, err, call, prev, ncalls, cudaErr, constTfms, stagedCount, cacheReads,
                   tfmpoints, gradPoints, gradMasks, gradTfms, loss, atomicLog>>
    /\ UNCHANGED fv
    /\ UNCHANGED held

\* where the block stands after warp w has run its segment: the warp is at
\* the barrier that follows the segment, or at its next segment
WarpControl(w) ==
    LET K   == call.K
        n   == bk.wpos[w]
        bar == BarrierAfter(Seg(n, K), K)
    IN  [bk EXCEPT
           !.wpos = [bk.wpos EXCEPT ![w] = IF bar THEN n ELSE NextPos(w, n, K)],
           !.atbar = IF bar THEN bk.atbar \cup {w} ELSE bk.atbar,
           !.finished = IF Seg(n, K).op = "finish" /\ 0 \in Lanes(w)
                        THEN bk.finished \cup {Seg(n, K).k} ELSE bk.finished]

\* the barrier after the tasks of warp w that go on to it have arrived
WarpArrives(w) ==
    [barrier EXCEPT
       !.waiting = barrier.waiting \cup
                   {tid \in Lanes(w) : ReachesBarrier(KArgs(call), bk.g, tid)},
       !.arrivals = [tid \in DOMAIN barrier.arrivals |->
                       IF tid \in Lanes(w) /\ ReachesBarrier(KArgs(call), bk.g, tid)
                       THEN barrier.arrivals[tid] + 1
                       ELSE barrier.arrivals[tid]]]

\* the scratch memory after the tasks L of a warp have run segment seg,
\* writing the cells W of the chunks CW and reading the cells R of the
\* chunks CR
WarpScratch(seg, L, W, R, CW, CR, contrib) ==
    [shm EXCEPT
       !.sh = [ch \in DOMAIN shm.sh |->
                 IF ch \in CW
                 THEN [c \in DOMAIN shm.sh[ch] |->
                         IF c \in W THEN CellValue(seg, c, shm.sh, contrib)
                         ELSE shm.sh[ch][c]]
                 ELSE shm.sh[ch]],
       !.wr = [ch \in DOMAIN shm.wr |->
                 IF ch \in CW
                 THEN [c \in DOMAIN shm.wr[ch] |->
                         IF c \in W THEN CellWriter(seg, c) ELSE shm.wr[ch][c]]
                 ELSE shm.wr[ch]],
       !.rd = [ch \in DOMAIN shm.rd |->
                 IF ch \in CR
                 THEN [c \in DOMAIN shm.rd[ch] |->
                         IF c \in R THEN ReaderLog(shm.rd[ch][c], CellReader(seg, c))
                         ELSE shm.rd[ch][c]]
                 ELSE shm.rd[ch]],
       !.races = shm.races \cup {c \in W \cup R : CellRaced(seg, c, L, shm.wr, shm.rd)}]

\* the stores to gradMasks of the tasks L within the limits for transform k
WarpGradMaskWrites(points, masks, gradOut, a, L, k) ==
    UNION { { << k * a.ms[2] + t.valm, GradMaskValue(t) >> :
              t \in { BwdTerms(points, masks, gradOut, constTfms, a, co, k) :
                      co \in {BwdCoordinates(a, bk.g, tid)} } } :
            tid \in L \cap WithinTids(a, bk.g) }

\* the cache entries the tasks L within the limits read for transform k
WarpCacheReads(a, L, k) ==
    UNION { TfmReads(constTfms, a, BwdCoordinates(a, bk.g, tid).b, k) :
            tid \in L \cap WithinTids(a, bk.g) }

\* the atomic adds of the result slots S into gradTfms, one to each address
WarpAtomicAdds(buf, base, sh, S) ==
    [j \in DOMAIN buf |->
        IF j - base \in S
        THEN AtomicAdd(buf, j, SlotAt(sh, NSharedGrads + j - base))[j]
        ELSE buf[j]]

\* gradTfms after the tasks L have added the result slots they take in
\* for (i = tid; i < nSE3*12; i += nThreads)
WarpGradTfms(a, L) ==
    WarpAtomicAdds(gradTfms, BwdCoordinates(a, bk.g, 0).b * a.ts[1], shm.sh,
                   { i \in 0..(call.K * NumTfmParams - 1) : i % NThreads \in L })

\* the atomicAdd calls of the tasks L, as a bag of <<block, address>>
WarpAtomicsIssued(a, L) ==
    CHOOSE bag \in
      { [e \in { <<bk.g, base + i>> :
                   i \in UNION { TaskMergeSlots(a.nSE3, tid) : tid \in L } }
           |-> Cardinality({ tid \in L : e[2] - base \in TaskMergeSlots(a.nSE3, tid) })] :
        base \in {BwdCoordinates(a, bk.g, 0).b * a.ts[1]} } : TRUE

\* the stores to gradPoints of the tasks L within the limits
WarpGradPointWrites(points, masks, gradOut, a, L) ==
    UNION { GradPointWrites(a, bk.g, regs) :
            regs \in { [tid \in L \cap WithinTids(a, bk.g) |->
                         CHOOSE acc \in
                           { GradPointAccum(0, << gradOut[0 * a.ps[2] + t.valp],
                                                  gradOut[1 * a.ps[2] + t.valp],
                                                  gradOut[2 * a.ps[2] + t.valp] >>,
                                            points, masks, gradOut, constTfms, a, t.co) :
                             t \in { [co |-> co,
                                      valp |-> co.b * a.ps[1] + co.r * a.ps[3]
                                               + co.c * a.ps[4]] :
                                     co \in {BwdCoordinates(a, bk.g, tid)} } } : TRUE] } }

\* warp w runs its segment up to the next barrier or to the next segment
WarpRun(w) ==
    /\ bk.g >= 0
    /\ w \in DOMAIN bk.wpos
    /\ w \notin bk.atbar
    /\ bk.wpos[w] <= NumSegs(call.K)
    /\ bk' = WarpControl(w)
    /\ barrier' = IF BarrierAfter(Seg(bk.wpos[w], call.K), call.K)
                  THEN WarpArrives(w) ELSE barrier
    /\ \E seg \in {Seg(bk.wpos[w], call.K)}, a \in {KArgs(call)}, L \in {Lanes(w)},
          P \in {PointsData(call)}, M \in {MasksData(call)}, G \in {GradOutData(call)} :
         /\ \E W \in {UNION { TaskWrites(seg, tid) : tid \in L }},
               R \in {UNION { TaskReads(seg, tid, call.K) : tid \in L }},
               contrib \in {IF seg.op = "store"
                            THEN TaskContributions(P, M, G, constTfms, a, bk.g, seg.k, L)
                            ELSE <<>>} :
              \E CW \in {{Chunk(c) : c \in W}}, CR \in {{Chunk(c) : c \in R}} :
                 shm' = WarpScratch(seg, L, W, R, CW, CR, contrib)
         /\ \E mw \in {IF seg.op = "store"
                       THEN WarpGradMaskWrites(P, M, G, a, L, seg.k) ELSE {}} :
              gradMasks' = ApplyWrites(gradMasks, mw)
         /\ cacheReads' = IF seg.op = "store"
                          THEN cacheReads \cup WarpCacheReads(a, L, seg.k) ELSE cacheReads
         /\ gradTfms' = IF seg.op = "merge" THEN WarpGradTfms(a, L) ELSE gradTfms
         /\ atomicLog' = IF seg.op = "merge"
                         THEN atomicLog (+) WarpAtomicsIssued(a, L) ELSE atomicLog
         /\ \E pw \in {IF seg.op = "merge"
                       THEN WarpGradPointWrites(P, M, G, a, L) ELSE {}} :
              gradPoints' = ApplyWrites(gradPoints, pw)
    /\ UNCHANGED <<pc, err, call, prev, ncalls, cudaErr, constTfms, stagedCount, blk,
                   tfmpoints, loss>>
    /\ UNCHANGED fv
    /\ UNCHANGED held

\* __syncthreads() lets the block go on once all its tasks have arrived
BarrierRelease ==
    /\ bk.g >= 0
    /\ barrier.waiting = 0..(NThreads - 1)
    /\ barrier' = [barrier EXCEPT !.waiting = {}]
    /\ bk' = [bk EXCEPT
                !.atbar = {},
                !.wpos = [w \in DOMAIN bk.wpos |-> NextPos(w, bk.wpos[w], call.K)]]
    /\ shm' = [shm EXCEPT
                 !.wr = FilledLog(call.K, -1),
                 !.rd = FilledLog(call.K, -1)]
    /\ UNCHANGED <<pc, err, call, prev, ncalls, cudaErr, constTfms, stagedCount, cacheReads,
                   blk, tfmpoints, gradPoints, gradMasks, gradTfms, loss, atomicLog>>
    /\ UNCHANGED fv
    /\ UNCHANGED held

\* every warp of the block has reached the end of the kernel
BlkEnd ==
    /\ bk.g >= 0
    /\ {w \in DOMAIN bk.wpos : bk.wpos[w] <= NumSegs(call.K)} = {}
    /\ blk' = [blk EXCEPT ![bk.g] =
                 [phase |-> "done",
                  results |-> [i \in 0..(call.K * NumTfmParams - 1) |->
                                 SlotAt(shm.sh, NSharedGrads + i)],
                  regs |-> <<>>, seg |-> NumSegs(call.K), sh |-> <<>>,
                  merged |-> WorkingWarps(KArgs(call), bk.g)]]
    /\ bk' = [bk EXCEPT !.g = -1]
    /\ UNCHANGED <<pc, err, call, prev, ncalls, cudaErr, constTfms, stagedCount, cacheReads,
                   tfmpoints, gradPoints, gradMasks, gradTfms, loss, barrier, shm,
                   atomicLog>>
    /\ UNCHANGED fv
    /\ UNCHANGED held

----------------------------------------------------------------------------
(* ComputeFlowAndVisibility_Pts_float and compute_visibility_and_flows on   *)
(* the host.  The inputs keep the float arithmetic exact: coordinates are   *)
(* integers and a quotient is kept as numerator and denominator.           *)

\* mindist before any candidate was seen: above every distance of the inputs
HUGE_VALF == 2147483647

\* (int) of a value that is not finite is undefined; what builds give
NonFiniteToInt == {-2147483647 - 1, 0, 2147483647}

\* round(n / d) for d # 0: the nearest integer, halves away from zero
Round(n, d) ==
    LET an == IF n < 0 THEN -n ELSE n
        ad == IF d < 0 THEN -d ELSE d
        q  == (2 * an + ad) \div (2 * ad)
    IN  IF (n < 0) = (d < 0) THEN q ELSE -q

\* (int) round((p / zp) * f + c0)
PixelOutcomes(p, zp, f, c0) ==
    IF zp = 0 THEN NonFiniteToInt ELSE {Round(p * f + c0 * zp, zp)}

\* pow(threshold, 2)
SqThresh(threshold) == threshold * threshold

\* floor(winsize / 2.0)
WinHalfSize(winsize) == winsize \div 2

\* the identity and the translation by s along x, as row-major 3x4 transforms
IdentityTfm == <<1, 0, 0, 0,   0, 1, 0, 0,   0, 0, 1, 0>>
ShiftXTfm(s) == <<1, 0, 0, s,   0, 1, 0, 0,   0, 0, 1, 0>>

\* the contiguous (B, 3, R, C) array of the points pts[n] of the cells n
PackPoints(B, R, C, pts) ==
    [i \in 0..(B * 3 * R * C - 1) |->
        pts[(i \div (3 * R * C)) * R * C + (i % (R * C))][((i % (3 * R * C)) \div (R * C)) + 1]]

\* the contiguous (B, NP, 3, 4) array with transform T[l] for label l
PackPoses(B, NP, T) ==
    [i \in 0..(B * NP * NumTfmParams - 1) |->
        T[(i \div NumTfmParams) % NP][(i % NumTfmParams) + 1]]

\* the points (c, r, 1): with unit focal lengths cell (r, c) sees its own point
OwnPixelPoints(B, R, C) == [n \in 0..(B * R * C - 1) |-> <<n % C, (n \div C) % R, 1>>]

\* the clouds of the second frame: every cell its own point; every cell the
\* point of cell (0, 0); every cell a point far away; the own points in
\* reverse order of the cells
Cloud2Patterns == {"own", "same", "far", "reversed"}
Cloud2Points(B, R, C, pat) ==
    [n \in 0..(B * R * C - 1) |->
        CASE pat = "own"      -> OwnPixelPoints(B, R, C)[n]
          [] pat = "same"     -> <<0, 0, 1>>
          [] pat = "far"      -> <<5, 5, 5>>
          [] pat = "reversed" -> OwnPixelPoints(B, R, C)[B * R * C - 1 - n]]

\* the point of cell 0 in the first frame: seen at pixel (0, 0), at (1, 1),
\* outside the image, with depth 0, half way between two pixels on either side
ProbePoints == { <<0, 0, 1>>, <<1, 1, 1>>, <<2, 0, 1>>, <<0, 0, 0>>, <<1, 0, 2>>, <<-1, 0, 2>> }

FlowShapes == { <<1, 2, 2>>, <<2, 1, 2>> }
FlowLabels1 == { <<1, 1, 1, 1>>, <<1, 0, 1, 1>> }
FlowLabels2 == { <<1, 1, 1, 1>>, <<1, 1, 1, 0>> }
FlowThresholds == {1, 2}
FlowWinSizes == {1, 2, 3}

\* a call of ComputeFlowAndVisibility_Pts_float: two labels (0 is the
\* background); the pose of label 1 in the second frame is the identity or a
\* shift by 1 along x, with its inverse
FlowCallOf(nd, sh, probe, c2, shifted, l1, l2, th, win) ==
    [ndim |-> nd, B |-> sh[1], R |-> sh[2], C |-> sh[3], NP |-> 2,
     cloud1 |-> PackPoints(sh[1], sh[2], sh[3],
                           [n \in 0..(sh[1] * sh[2] * sh[3] - 1) |->
                              IF n = 0 THEN probe
                              ELSE OwnPixelPoints(sh[1], sh[2], sh[3])[n]]),
     cloud2 |-> PackPoints(sh[1], sh[2], sh[3], Cloud2Points(sh[1], sh[2], sh[3], c2)),
     label1 |-> [n \in 0..(sh[1] * sh[2] * sh[3] - 1) |-> l1[n + 1]],
     label2 |-> [n \in 0..(sh[1] * sh[2] * sh[3] - 1) |-> l2[n + 1]],
     poses1 |-> PackPoses(sh[1], 2, [l \in 0..1 |-> IdentityTfm]),
     poses2 |-> PackPoses(sh[1], 2, [l \in 0..1 |->
                            IF l = 1 /\ shifted THEN ShiftXTfm(1) ELSE IdentityTfm]),
     poseinvs1 |-> PackPoses(sh[1], 2, [l \in 0..1 |-> IdentityTfm]),
     poseinvs2 |-> PackPoses(sh[1], 2, [l \in 0..1 |->
                            IF l = 1 /\ shifted THEN ShiftXTfm(-1) ELSE IdentityTfm]),
     fx |-> 1, fy |-> 1, cx |-> 0, cy |-> 0, threshold |-> th, winsize |-> win]

FlowInputs ==
    { FlowCallOf(3, sh, probe, c2, shifted, l1, l2, th, win) :
        sh \in FlowShapes, probe \in ProbePoints, c2 \in Cloud2Patterns,
        shifted \in BOOLEAN, l1 \in FlowLabels1, l2 \in FlowLabels2,
        th \in FlowThresholds, win \in FlowWinSizes }

\* a call whose clouds are not 3D
FlowRejectedInputs ==
    { FlowCallOf(2, <<1, 2, 2>>, <<0, 0, 1>>, "own", FALSE,
                 <<1, 1, 1, 1>>, <<1, 1, 1, 1>>, 1, 1) }

\* sizes and the strides of the contiguous clouds, labels and poses
FlowArgs(in) ==
    [batchsize |-> in.B, nrows |-> in.R, ncols |-> in.C,
     cs |-> ContigStrides(in.B, 3, in.R, in.C),
     ls |-> ContigStrides(in.B, 1, in.R, in.C),
     ps |-> ContigStrides(in.B, in.NP, 3, 4)]

\* no call of ComputeFlowAndVisibility_Pts_float yet
NoFlowCall == [stage |-> "none", in |-> <<>>, local1 |-> <<>>, local2 |-> <<>>,
               vis |-> <<>>, flows |-> <<>>, pix |-> <<>>, pos |-> 0, ret |-> 0]

FlowDirs == {"fwd", "bwd"}

\* the x, y, z of the cell at offset val of a cloud with strides cs
PointAt(buf, cs, val) == << buf[0 * cs[2] + val], buf[1 * cs[2] + val], buf[2 * cs[2] + val] >>

\* T[0] * x + T[1] * y + T[2] * z + T[3] and the two rows after it, T at base
ApplyPose(poses, base, p) ==
    [d \in 1..3 |-> poses[base + 4 * (d - 1)] * p[1] + poses[base + 4 * (d - 1) + 1] * p[2]
                      + poses[base + 4 * (d - 1) + 2] * p[3] + poses[base + 4 * (d - 1) + 3]]

\* pow(xi-xt, 2) + pow(yi-yt, 2) + pow(zi-zt, 2)
SqDist(p, q) ==
    (p[1] - q[1]) * (p[1] - q[1]) + (p[2] - q[2]) * (p[2] - q[2]) + (p[3] - q[3]) * (p[3] - q[3])

\* the local coordinates of a cloud: the inverse pose of each cell's label
LocalCoordinates(a, cloud, label, poseinvs) ==
    [i \in DOMAIN cloud |->
        LET b    == i \div a.cs[1]
            d    == (i % a.cs[1]) \div a.cs[2]
            r    == (i % a.cs[2]) \div a.cs[3]
            c    == i % a.cs[3]
            valc == b * a.cs[1] + r * a.cs[3] + c * a.cs[4]
            l    == label[b * a.ls[1] + r * a.ls[3] + c * a.ls[4]]
        IN  ApplyPose(poseinvs, b * a.ps[1] + l * a.ps[2], PointAt(cloud, a.cs, valc))[d + 1]]

\* what compute_visibility_and_flows is handed in a direction: t -> t+1 with
\* poses2, t+1 -> t with the frames swapped and poses1
FlowOperands(f, dir) ==
    IF dir = "fwd"
    THEN [cloud1 |-> f.in.cloud1, cloud2 |-> f.in.cloud2,
          local1 |-> f.local1, local2 |-> f.local2,
          label1 |-> f.in.label1, label2 |-> f.in.label2, poses2 |-> f.in.poses2]
    ELSE [cloud1 |-> f.in.cloud2, cloud2 |-> f.in.cloud1,
          local1 |-> f.local2, local2 |-> f.local1,
          label1 |-> f.in.label2, label2 |-> f.in.label1, poses2 |-> f.in.poses1]

\* a candidate nearer than the nearest one so far, or as near
CloserOrTied(dist, mindist, sqthresh) == dist <= mindist /\ dist < sqthresh

\* (dist < mindist) && (dist < sqthresh)
Closer(dist, mindist, sqthresh) == dist < mindist /\ dist < sqthresh

\* the two loops over the window around the pixel, from the n-th cell of the
\* window in the order of the loops; best holds mindist, mintr, mintc
RECURSIVE WindowScan(_, _, _, _, _, _, _)
WindowScan(a, o, in, cell, pixel, n, best) ==
    IF n >= in.winsize * in.winsize THEN best
    ELSE LET tr == pixel[1] - WinHalfSize(in.winsize) + (n \div in.winsize)
             tc == pixel[2] - WinHalfSize(in.winsize) + (n % in.winsize)
         IN  IF tr < 0 \/ tr >= a.nrows \/ tc < 0 \/ tc >= a.ncols
             THEN WindowScan(a, o, in, cell, pixel, n + 1, best)
             ELSE LET valtc == cell.b * a.cs[1] + tr * a.cs[3] + tc * a.cs[4]
                      mt    == o.label2[cell.b * a.ls[1] + tr * a.ls[3] + tc * a.ls[4]]
                      dist  == SqDist(cell.pi, PointAt(o.local2, a.cs, valtc))
                  IN  IF mt # cell.mi
                      THEN WindowScan(a, o, in, cell, pixel, n + 1, best)
                      ELSE IF Closer(dist, best.mindist, SqThresh(in.threshold))
                      THEN WindowScan(a, o, in, cell, pixel, n + 1,
                                      [mindist |-> dist, mintr |-> tr, mintc |-> tc])
                      ELSE WindowScan(a, o, in, cell, pixel, n + 1, best)

\* the cell the loops over b, r, c reach in their n-th round: its offsets in
\* the clouds and in the labels, its label, its local point and where the
\* pose of its label takes that point
FlowCellAt(a, o, n) ==
    LET b == n \div (a.nrows * a.ncols)
        r == (n \div a.ncols) % a.nrows
        c == n % a.ncols
        valc == b * a.cs[1] + r * a.cs[3] + c * a.cs[4]
        vall == b * a.ls[1] + r * a.ls[3] + c * a.ls[4]
        mi == o.label1[vall]
        pi == PointAt(o.local1, a.cs, valc)
    IN  [b |-> b, r |-> r, c |-> c, valc |-> valc, vall |-> vall, mi |-> mi, pi |-> pi,
         pp |-> ApplyPose(o.poses2, b * a.ps[1] + mi * a.ps[2], pi)]

\* one round of the loops over b, r, c for a cell that is not background,
\* its pixel being <<rpix, cpix>>: the state of the call after it
FlowCellDone(f, dir, a, o, cell, pixel) ==
    LET found == IF pixel[1] < 0 \/ pixel[1] >= a.nrows \/ pixel[2] < 0 \/ pixel[2] >= a.ncols
                 THEN [mindist |-> HUGE_VALF, mintr |-> -1, mintc |-> -1]
                 ELSE WindowScan(a, o, f.in, cell, pixel, 0,
                                 [mindist |-> HUGE_VALF, mintr |-> -1, mintc |-> -1])
        p1 == PointAt(o.cloud1, a.cs, cell.valc)
        p2 == PointAt(o.cloud2, a.cs,
                      cell.b * a.cs[1] + found.mintr * a.cs[3] + found.mintc * a.cs[4])
    IN  IF found.mintr # -1 /\ found.mintc # -1
        THEN [f EXCEPT !.vis[dir][cell.vall] = 1,
                       !.flows[dir][0 * a.cs[2] + cell.valc] = p2[1] - p1[1],
                       !.flows[dir][1 * a.cs[2] + cell.valc] = p2[2] - p1[2],
                       !.flows[dir][2 * a.cs[2] + cell.valc] = p2[3] - p1[3],
                       !.pix[dir][cell.vall] = pixel]
        ELSE [f EXCEPT !.pix[dir][cell.vall] = pixel]

\* where the call stands after round n of the loops of a direction
FlowAdvance(f, n) ==
    IF n + 1 < f.in.B * f.in.R * f.in.C THEN [f EXCEPT !.pos = n + 1]
    ELSE IF f.stage = "fwd" THEN [f EXCEPT !.stage = "bwd", !.pos = 0]
    ELSE [f EXCEPT !.stage = "freeing", !.pos = 0]

\* ComputeFlowAndVisibility_Pts_float up to its fills: the assert on the
\* number of dimensions; the outputs and the temporaries hold what the caller
\* left in them.  One call is followed: nothing is kept between calls
FlowEnter(in) ==
    /\ fv.stage = "none"
    /\ IF in.ndim # 3
       THEN fv' = [NoFlowCall EXCEPT !.stage = "aborted", !.in = in]
       ELSE \E gv \in GarbageVals :
              fv' = [stage |-> "entered", in |-> in,
                     local1 |-> [i \in DOMAIN in.cloud1 |-> gv],
                     local2 |-> [i \in DOMAIN in.cloud2 |-> gv],
                     vis |-> [d \in FlowDirs |-> [i \in DOMAIN in.label1 |-> gv]],
                     flows |-> [d \in FlowDirs |-> [i \in DOMAIN in.cloud1 |-> gv]],
                     pix |-> [d \in FlowDirs |-> [i \in DOMAIN in.label1 |-> <<>>]],
                     pos |-> 0, ret |-> 0]
    /\ UNCHANGED <<pc, err, call, prev, ncalls, cudaErr, constTfms, stagedCount, cacheReads,
                   blk, tfmpoints, gradPoints, gradMasks, gradTfms, loss, bk, barrier, shm,
                   atomicLog>>
    /\ held' = IF in.ndim # 3 THEN NoTensors ELSE Acquired(FlowContiguous)

\* THByteTensor_fill and THFloatTensor_fill of the four outputs
FlowFill ==
    /\ fv.stage = "entered"
    /\ fv' = [fv EXCEPT !.stage = "filled",
                        !.vis = [d \in FlowDirs |-> Fill(fv.vis[d], 0)],
                        !.flows = [d \in FlowDirs |-> Fill(fv.flows[d], 0)]]
    /\ UNCHANGED <<pc, err, call, prev, ncalls, cudaErr, constTfms, stagedCount, cacheReads,
                   blk, tfmpoints, gradPoints, gradMasks, gradTfms, loss, bk, barrier, shm,
                   atomicLog>>
    /\ UNCHANGED held

\* the loops that compute the local coordinates of both frames
FlowLocal ==
    /\ fv.stage = "filled"
    /\ fv' = [fv EXCEPT
                !.stage = "fwd",
                !.local1 = LocalCoordinates(FlowArgs(fv.in), fv.in.cloud1, fv.in.label1,
                                            fv.in.poseinvs1),
                !.local2 = LocalCoordinates(FlowArgs(fv.in), fv.in.cloud2, fv.in.label2,
                                            fv.in.poseinvs2)]
    /\ UNCHANGED <<pc, err, call, prev, ncalls, cudaErr, constTfms, stagedCount, cacheReads,
                   blk, tfmpoints, gradPoints, gradMasks, gradTfms, loss, bk, barrier, shm,
                   atomicLog>>
    /\ UNCHANGED held

\* one round of the loops over b, r, c of compute_visibility_and_flows
FlowCell ==
    /\ fv.stage \in FlowDirs
    /\ \E a \in {FlowArgs(fv.in)}, o \in {FlowOperands(fv, fv.stage)} :
         \E cell \in {FlowCellAt(a, o, fv.pos)} :
            IF cell.mi = 0
            THEN fv' = FlowAdvance([fv EXCEPT !.vis[fv.stage][cell.vall] = 1], fv.pos)
            ELSE \E cpix \in PixelOutcomes(cell.pp[1], cell.pp[3], fv.in.fx, fv.in.cx),
                    rpix \in PixelOutcomes(cell.pp[2], cell.pp[3], fv.in.fy, fv.in.cy) :
                   fv' = FlowAdvance(FlowCellDone(fv, fv.stage, a, o, cell, <<rpix, cpix>>),
                                     fv.pos)
    /\ UNCHANGED <<pc, err, call, prev, ncalls, cudaErr, constTfms, stagedCount, cacheReads,
                   blk, tfmpoints, gradPoints, gradMasks, gradTfms, loss, bk, barrier, shm,
                   atomicLog>>
    /\ UNCHANGED held

\* the frees and the return of 1
FlowReturn ==
    /\ fv.stage = "freeing"
    /\ fv' = [fv EXCEPT !.stage = "returned", !.ret = 1]
    /\ UNCHANGED <<pc, err, call, prev, ncalls, cudaErr, constTfms, stagedCount, cacheReads,
                   blk, tfmpoints, gradPoints, gradMasks, gradTfms, loss, bk, barrier, shm,
                   atomicLog>>
    /\ held' = Freed(held, FlowFreed)

----------------------------------------------------------------------------

Init ==
    /\ pc = "idle"
    /\ err = "none"
    /\ call = NoCall
    /\ prev = NoCall
    /\ ncalls = 0
    /\ cudaErr = FALSE
    /\ constTfms = <<>>
    /\ stagedCount = 0
    /\ cacheReads = {}
    /\ blk = <<>>
    /\ tfmpoints = <<>>
    /\ gradPoints = <<>>
    /\ gradMasks = <<>>
    /\ gradTfms = <<>>
    /\ loss = NoLoss
    /\ bk = NoBlockRun
    /\ barrier = NoBarrier
    /\ shm = NoScratch
    /\ atomicLog = EmptyBag
    /\ fv = NoFlowCall
    /\ held = NoTensors

Next ==
    \/ \E in \in Inputs : Forward(in)
    \/ \E in \in Inputs : Backward(in)
    \/ \E bid \in DOMAIN blk : FwdBlock(bid)
    \/ \E g \in DOMAIN blk : BwdStore(g)
    \/ \E g \in DOMAIN blk : BwdHalve(g)
    \/ \E g \in DOMAIN blk : BwdFinish(g)
    \/ \E g \in DOMAIN blk : \E w \in 0..(NWarps - 1) : BwdMerge(g, w)
    \/ Sync

Spec == Init /\ [][Next]_vars

----------------------------------------------------------------------------
(* The entry points at the limits of the constant memory and of the shared *)
(* memory.  SpecCap follows a call at a limit through the entry point's     *)
(* checks, the staging of the cache, the launch, the blocks of the kernel   *)
(* and the synchronisation.                                                *)

\* calls at the limits: 15000 parameters forward (1250 batches of one
\* transform); 410 and 411 transforms backward; 15012 parameters, the first
\* count above 15000 that a (B,K,3,4) tensor can have
CapInputs ==
    { CallOf("fwd", 3, 1250, 1, 1, 1, 0),
      CallOf("bwd", 3, 1, 1, 1, 410, 0),
      CallOf("bwd", 3, 1, 1, 1, 411, 0),
      CallOf("fwd", 3, 1251, 1, 1, 1, 0),
      CallOf("bwd", 3, 1251, 1, 1, 1, 0) }

\* calls followed in one behaviour of SpecCap
CapCalls == 1

NextCap ==
    \/ \E in \in CapInputs : ncalls < CapCalls /\ Forward(in)
    \/ \E in \in CapInputs : ncalls < CapCalls /\ Backward(in)
    \/ \E bid \in DOMAIN blk : FwdBlock(bid)
    \/ \E g \in DOMAIN blk : BwdStore(g)
    \/ \E g \in DOMAIN blk : BwdHalve(g)
    \/ \E g \in DOMAIN blk : BwdFinish(g)
    \/ \E g \in DOMAIN blk : \E w \in 0..(NWarps - 1) : BwdMerge(g, w)
    \/ Sync

SpecCap == Init /\ [][NextCap]_vars

----------------------------------------------------------------------------
(* Backward calls that differ in the scale of the upstream gradient only *)

\* two transforms on two points with gradOut times 1, 3 and -2; two batches
\* with gradOut times 0
LinInputs ==
    { Scaled(CallOf("bwd", 3, 1, 1, 2, 2, 1), al) : al \in {1, 3, -2} }
        \cup { Scaled(CallOf("bwd", 3, 2, 1, 1, 1, 1), 0) }

NextLin ==
    \/ \E in \in LinInputs : Backward(in)
    \/ \E g \in DOMAIN blk : BwdStore(g)
    \/ \E g \in DOMAIN blk : BwdHalve(g)
    \/ \E g \in DOMAIN blk : BwdFinish(g)
    \/ \E g \in DOMAIN blk : \E w \in 0..(NWarps - 1) : BwdMerge(g, w)
    \/ Sync

SpecLin == Init /\ [][NextLin]_vars

----------------------------------------------------------------------------
(* The fused loss entry points Weighted3DTransformLoss_forward_cuda and    *)
(* Weighted3DTransformLoss_backward_cuda.  Their launchers are declared    *)
(* only: the summed error and the gradients a launcher leaves are inputs.  *)
(* Floats are fractions <<numerator, denominator>>; the gradient buffers   *)
(* hold the numerators over the denominator of norm.                       *)

\* THCudaTensor_nElement(state, points)
NElement(in) == in.B * 3 * in.R * in.C

\* loss *= 0.5
Half(q) == <<q[1], 2 * q[2]>>

\* loss /= ((float)nElements) and norm *= 1.0/((float)nElements)
DivBy(q, n) == <<q[1], q[2] * n>>

\* the float returned from a function declared int: the fraction is cut off
FloatToInt(q) == IF q[1] >= 0 THEN q[1] \div q[2] ELSE 0 - ((0 - q[1]) \div q[2])

\* THCudaTensor_mul(state, t, t, norm), on the numerators
MulBuf(buf, q) == [i \in DOMAIN buf |-> buf[i] * q[1]]

\* the gradients a backward launcher leaves in a buffer of n elements
LossGradData(n, p) == [i \in 0..(n - 1) |-> ((i + p) % 5) - 2]

\* the summed errors a forward launcher returns, the upstream gradients
LossSums == {0, 3, 4, 7}
UpstreamGrads == {2, -3}

LossFwdInputs == { CallOf("lossfwd", 3, 1, 1, 1, 1, 0), CallOf("lossfwd", 3, 1, 1, 2, 1, 1),
                   CallOf("lossfwd", 3, 1251, 1, 1, 1, 0) }
LossBwdInputs == { CallOf("lossbwd", 3, 1, 1, 1, 1, 0), CallOf("lossbwd", 3, 1, 1, 2, 1, 1),
                   CallOf("lossbwd", 3, 1251, 1, 1, 1, 0) }

\* Weighted3DTransformLoss_forward_cuda
LossForward(in, sizeAverage, L) ==
    /\ pc \in {"idle", "returned"}
    /\ ncalls < MaxCalls
    /\ in.kind = "lossfwd"
    /\ IF ~NdimOK(in)
       THEN Abort("AssertionFailed", in) /\ UNCHANGED loss
       ELSE IF TfmCapacityExceeded(NTfmParams(in))
       THEN Abort("CapacityExceeded", in) /\ UNCHANGED loss
       ELSE LET half == Half(<<L, 1>>)
                val  == IF sizeAverage THEN DivBy(half, NElement(in)) ELSE half
            IN  /\ loss' = [avg |-> sizeAverage, L |-> L, go |-> 0, val |-> val,
                            ret |-> FloatToInt(val)]
                /\ pc' = "returned"
                /\ err' = "none"
                /\ call' = in
                /\ prev' = call
                /\ ncalls' = ncalls + 1
    /\ UNCHANGED <<cudaErr, constTfms, stagedCount, cacheReads, blk, tfmpoints,
                   gradPoints, gradMasks, gradTfms>>
    /\ UNCHANGED <<bk, barrier, shm, atomicLog>>
    /\ UNCHANGED fv
    /\ held' = IF NdimOK(in) /\ ~TfmCapacityExceeded(NTfmParams(in))
               THEN Freed(Acquired(LossContiguous), LossFreed) ELSE NoTensors

\* Weighted3DTransformLoss_backward_cuda
LossBackward(in, sizeAverage, go) ==
    /\ pc \in {"idle", "returned"}
    /\ ncalls < MaxCalls
    /\ in.kind = "lossbwd"
    /\ IF ~NdimOK(in)
       THEN /\ Abort("AssertionFailed", in)
            /\ UNCHANGED <<loss, gradPoints, gradMasks, gradTfms>>
       ELSE IF TfmCapacityExceeded(NTfmParams(in))
       THEN /\ Abort("CapacityExceeded", in)
            /\ UNCHANGED <<loss, gradPoints, gradMasks, gradTfms>>
       ELSE LET norm == IF sizeAverage THEN DivBy(<<go, 1>>, NElement(in)) ELSE <<go, 1>>
            IN  /\ gradPoints' = MulBuf(LossGradData(3 * NPoints(in), in.pat), norm)
                /\ gradMasks' = MulBuf(LossGradData(in.K * NPoints(in), in.pat + 1), norm)
                /\ gradTfms' = MulBuf(LossGradData(NTfmParams(in), in.pat + 2), norm)
                /\ loss' = [avg |-> sizeAverage, L |-> 0, go |-> go, val |-> norm, ret |-> 0]
                /\ pc' = "returned"
                /\ err' = "none"
                /\ call' = in
                /\ prev' = call
                /\ ncalls' = ncalls + 1
    /\ UNCHANGED <<cudaErr, constTfms, stagedCount, cacheReads, blk, tfmpoints>>
    /\ UNCHANGED <<bk, barrier, shm, atomicLog>>
    /\ UNCHANGED fv
    /\ held' = IF NdimOK(in) /\ ~TfmCapacityExceeded(NTfmParams(in))
               THEN Freed(Acquired(LossContiguous), LossFreed) ELSE NoTensors

NextLoss ==
    \/ \E in \in LossFwdInputs, sizeAverage \in BOOLEAN, L \in LossSums :
          LossForward(in, sizeAverage, L)
    \/ \E in \in LossBwdInputs, sizeAverage \in BOOLEAN, go \in UpstreamGrads :
          LossBackward(in, sizeAverage, go)

SpecLoss == Init /\ [][NextLoss]_vars

----------------------------------------------------------------------------
(* Calls of ComputeFlowAndVisibility_Pts_float *)

NextFlow ==
    \/ \E in \in FlowInputs \cup FlowRejectedInputs : FlowEnter(in)
    \/ FlowFill
    \/ FlowLocal
    \/ FlowCell
    \/ FlowReturn

SpecFlow == Init /\ [][NextFlow]_vars

----------------------------------------------------------------------------
(* One backward block followed warp by warp *)

\* two transforms on 16 x 2 points: 32 tasks within the limits, four in
\* each warp, and 224 outside
BlkInputs == { CallOf("bwd", 3, 1, 16, 2, 2, 1) }

\* the calls followed warp by warp
BlkCalls == 1

NextBlk ==
    \/ \E in \in BlkInputs : ncalls < BlkCalls /\ Backward(in)
    \/ \E g \in DOMAIN blk : BlkBegin(g)
    \/ \E w \in DOMAIN bk.wpos : WarpRun(w)
    \/ BarrierRelease
    \/ BlkEnd
    \/ Sync

SpecBlk == Init /\ [][NextBlk]_vars

\* a step of the device
DeviceStep ==
    \/ \E g \in DOMAIN blk : BlkBegin(g)
    \/ \E w \in DOMAIN bk.wpos : WarpRun(w)
    \/ BarrierRelease
    \/ BlkEnd

\* the device goes on running what can run: a block that is ready, a warp
\* that is not at a barrier, a barrier all tasks have arrived at; the host
\* sits in cudaDeviceSynchronize() until the device is done
SpecBlkLive == SpecBlk /\ WF_vars(DeviceStep) /\ WF_vars(Sync)

----------------------------------------------------------------------------
(* The quantities the properties speak of, written from their statement:   *)
(* cells are named (b, r, c), transforms (b, k), and the tensors are read  *)
(* by their shape (B,3,R,C), (B,K,R,C), (B,K,3,4).                         *)

Dot(u, v) == u[1] * v[1] + u[2] * v[2] + u[3] * v[3]
VAdd(u, v) == << u[1] + v[1], u[2] + v[2], u[3] + v[3] >>
VSub(u, v) == << u[1] - v[1], u[2] - v[2], u[3] - v[3] >>
VScale(w, u) == << w * u[1], w * u[2], w * u[3] >>
MatVec(A, v) == << Dot(A[1], v), Dot(A[2], v), Dot(A[3], v) >>
Transpose(A) == [i \in 1..3 |-> [j \in 1..3 |-> A[j][i]]]

RECURSIVE VSum(_, _)
\* the sum of the vectors f[n] for n in the finite set S
VSum(f, S) ==
    IF S = {} THEN <<0, 0, 0>>
    ELSE LET n == CHOOSE m \in S : TRUE IN VAdd(f[n], VSum(f, S \ {n}))

RECURSIVE Sum(_, _)
\* the sum of the numbers f[n] for n in the finite set S
Sum(f, S) ==
    IF S = {} THEN 0
    ELSE LET n == CHOOSE m \in S : TRUE IN f[n] + Sum(f, S \ {n})

Batches(in) == 0..(in.B - 1)
Rows(in) == 0..(in.R - 1)
Cols(in) == 0..(in.C - 1)
Tfms(in) == 0..(in.K - 1)

\* index of element (b, d, r, c) of a tensor of shape (B, D, R, C)
Idx4(in, D, b, d, r, c) == ((b * D + d) * in.R + r) * in.C + c

PointOf(in, b, r, c) ==
    [d \in 1..3 |-> PointsData(in)[Idx4(in, 3, b, d - 1, r, c)]]
GradOutOf(in, b, r, c) ==
    [d \in 1..3 |-> GradOutData(in)[Idx4(in, 3, b, d - 1, r, c)]]
WeightOf(in, b, k, r, c) == MasksData(in)[Idx4(in, in.K, b, k, r, c)]
\* linear part R_k and translation t_k of the row-major 3x4 Transform[b,k]
LinearOf(in, b, k) ==
    [i \in 1..3 |-> [j \in 1..3 |->
        TfmsData(in)[(b * in.K + k) * 12 + 4 * (i - 1) + (j - 1)]]]
TranslationOf(in, b, k) ==
    [i \in 1..3 |-> TfmsData(in)[(b * in.K + k) * 12 + 4 * (i - 1) + 3]]

Returned(kd) == pc = "returned" /\ call.kind = kd

\* p + sum over k of w_k * (R_k*p + t_k - p)
BlendedPoint(in, b, r, c) ==
    LET p == PointOf(in, b, r, c)
    IN  VAdd(p, VSum([k \in Tfms(in) |->
                        VScale(WeightOf(in, b, k, r, c),
                               VSub(VAdd(MatVec(LinearOf(in, b, k), p),
                                         TranslationOf(in, b, k)), p))],
                     Tfms(in)))

ScenarioFwd == CallOf("fwd", 3, 1, 1, 1, 1, 0)
ScenarioBwd == CallOf("bwd", 3, 1, 1, 1, 1, 0)

\* C1: when a forward call has returned, the output point of every cell
\* (b,r,c) is p + sum_k w_k * (R_k*p + t_k - p); in the one-cell scenario
\* (point (1,0,0), weight 1, identity rotation, translation (0,1,0)) it is
\* (1,1,0).
C1_ForwardBlend ==
    Returned("fwd") =>
        /\ \A b \in Batches(call), r \in Rows(call), c \in Cols(call), d \in 1..3 :
              tfmpoints[Idx4(call, 3, b, d - 1, r, c)] = BlendedPoint(call, b, r, c)[d]
        /\ call = ScenarioFwd => tfmpoints = [i \in 0..2 |-> <<1, 1, 0>>[i + 1]]

C1_Witness ==
    /\ Returned("fwd")
    /\ call = ScenarioFwd
    /\ PointOf(call, 0, 0, 0) = <<1, 0, 0>>
    /\ WeightOf(call, 0, 0, 0, 0) = 1
    /\ TranslationOf(call, 0, 0) = <<0, 1, 0>>
    /\ tfmpoints[0] = 1 /\ tfmpoints[1] = 1 /\ tfmpoints[2] = 0

AllWeightsZero(in) == \A i \in DOMAIN MasksData(in) : MasksData(in)[i] = 0

\* C6: when a forward call whose weights are all zero has returned, the
\* output point field equals the input point field, whatever the transforms.
C6_ZeroWeightsIdentity ==
    (Returned("fwd") /\ AllWeightsZero(call)) => tfmpoints = PointsData(call)

C6_Witness ==
    /\ Returned("fwd")
    /\ AllWeightsZero(call)
    /\ \E b \in Batches(call), k \in Tfms(call) :
          LinearOf(call, b, k) # << <<1, 0, 0>>, <<0, 1, 0>>, <<0, 0, 1>> >>
    /\ tfmpoints = PointsData(call)

\* g + sum over k of w_k * (R_k^T g - g)
PointGradient(in, b, r, c) ==
    LET g == GradOutOf(in, b, r, c)
    IN  VAdd(g, VSum([k \in Tfms(in) |->
                        VScale(WeightOf(in, b, k, r, c),
                               VSub(MatVec(Transpose(LinearOf(in, b, k)), g), g))],
                     Tfms(in)))

\* p.(R_k^T g) + g.(t_k - p)
WeightGradient(in, b, k, r, c) ==
    LET p == PointOf(in, b, r, c)
        g == GradOutOf(in, b, r, c)
    IN  Dot(p, MatVec(Transpose(LinearOf(in, b, k)), g)) +
        Dot(g, VSub(TranslationOf(in, b, k), p))

\* the per-point term of entry (row i, column j) of transform k, i, j from 0:
\* w_k * p_j * g_i for the linear entries, w_k * g_i for the translation
TfmTerm(in, b, k, r, c, i, j) ==
    IF j < 3
    THEN WeightOf(in, b, k, r, c) * PointOf(in, b, r, c)[j + 1] * GradOutOf(in, b, r, c)[i + 1]
    ELSE WeightOf(in, b, k, r, c) * GradOutOf(in, b, r, c)[i + 1]

\* the sum of the per-point terms over the cells of batch b
TfmGradient(in, b, k, i, j) ==
    Sum([rc \in Rows(in) \X Cols(in) |-> TfmTerm(in, b, k, rc[1], rc[2], i, j)],
        Rows(in) \X Cols(in))

\* C2: when a backward call has returned, whatever the order in which the
\* blocks ran and added, every entry gradTfms[b,k,4*i+j] is the sum over the
\* cells (r,c) of batch b of w_k * p_j * g_i (j < 3) or w_k * g_i (j = 3).
C2_TfmGradientSum ==
    Returned("bwd") =>
        \A b \in Batches(call), k \in Tfms(call), i \in 0..2, j \in 0..3 :
            gradTfms[(b * call.K + k) * 12 + 4 * i + j] = TfmGradient(call, b, k, i, j)

\* a returned backward call in which two blocks added into the same
\* transform and the sum has a non-zero entry
C2_Witness ==
    /\ Returned("bwd")
    /\ call.B = 1
    /\ Cardinality(DOMAIN blk) = 2
    /\ \A g \in DOMAIN blk : \E j \in DOMAIN blk[g].results : blk[g].results[j] # 0
    /\ \E j \in DOMAIN gradTfms : gradTfms[j] # 0
    /\ gradTfms[3] = TfmGradient(call, 0, 0, 0, 3)

\* C3: when a backward call has returned, gradPoints[b,:,r,c] is
\* g + sum_k w_k * (R_k^T g - g) in every cell; in the one-cell scenario with
\* g = (1,1,1) it is (1,1,1).
C3_PointGradient ==
    Returned("bwd") =>
        /\ \A b \in Batches(call), r \in Rows(call), c \in Cols(call), d \in 1..3 :
              gradPoints[Idx4(call, 3, b, d - 1, r, c)] = PointGradient(call, b, r, c)[d]
        /\ call = ScenarioBwd => gradPoints = [i \in 0..2 |-> 1]

C3_Witness ==
    /\ Returned("bwd")
    /\ call = ScenarioBwd
    /\ GradOutOf(call, 0, 0, 0) = <<1, 1, 1>>
    /\ gradPoints = [i \in 0..2 |-> 1]

\* C4: when a backward call has returned, gradMasks[b,k,r,c] is
\* p.(R_k^T g) + g.(t_k - p) for every cell and transform; in the one-cell
\* scenario (p = (1,0,0), t = (0,1,0), g = (1,1,1)) it is 1.
C4_WeightGradient ==
    Returned("bwd") =>
        /\ \A b \in Batches(call), k \in Tfms(call), r \in Rows(call), c \in Cols(call) :
              gradMasks[Idx4(call, call.K, b, k, r, c)] = WeightGradient(call, b, k, r, c)
        /\ call = ScenarioBwd => gradMasks = [i \in 0..0 |-> 1]

C4_Witness ==
    /\ Returned("bwd")
    /\ call = ScenarioBwd
    /\ PointOf(call, 0, 0, 0) = <<1, 0, 0>>
    /\ TranslationOf(call, 0, 0) = <<0, 1, 0>>
    /\ GradOutOf(call, 0, 0, 0) = <<1, 1, 1>>
    /\ gradMasks[0] = 1

\* the layout of the same points (same flat data) that puts every batch in
\* one block: one row of up to 16 cells, or rows of 16 cells
HasSingleBlockLayout(in) ==
    \/ in.R * in.C <= BlockDimX
    \/ (in.R * in.C) % BlockDimX = 0 /\ (in.R * in.C) \div BlockDimX <= BlockDimY
SingleBlockLayout(in) ==
    IF in.R * in.C <= BlockDimX
    THEN [in EXCEPT !.R = 1, !.C = in.R * in.C]
    ELSE [in EXCEPT !.R = (in.R * in.C) \div BlockDimX, !.C = BlockDimX]

\* gradTfms as reduced by one block per batch in the single-block layout
SingleBlockGradTfms(in) ==
    LET L == SingleBlockLayout(in)
    IN  [j \in 0..(NTfmParams(in) - 1) |->
            SharedGradTfmResults(PointsData(L), MasksData(L), GradOutData(L), TfmsData(L),
                                 KArgs(L), j \div (in.K * 12))[j % (in.K * 12)]]

\* C7: the gradTfms a returned backward call leaves, however its points were
\* split into blocks that reduce locally and merge by atomic add, equals the
\* gradTfms of the same points reduced in a single block.
C7_PartitionIndependent ==
    (Returned("bwd") /\ HasSingleBlockLayout(call)) =>
        /\ PointsData(SingleBlockLayout(call)) = PointsData(call)
        /\ NumGroups(KArgs(SingleBlockLayout(call))) = call.B
        /\ gradTfms = SingleBlockGradTfms(call)

\* the 32 points of one batch, split into two blocks, against one block
C7_Witness ==
    /\ Returned("bwd")
    /\ call.B = 1
    /\ Cardinality(DOMAIN blk) = 2
    /\ \A g \in DOMAIN blk : \E j \in DOMAIN blk[g].results : blk[g].results[j] # 0
    /\ NumGroups(KArgs(SingleBlockLayout(call))) = 1
    /\ gradTfms = SingleBlockGradTfms(call)

\* the blocks the launcher of a call launches
LaunchedBlocks(in) ==
    IF in.kind = "fwd"
    THEN 0..(CeilDiv(NPoints(in), FwdThreads) - 1)
    ELSE 0..(NumGroups(KArgs(in)) - 1)

\* C8: when a launcher has returned to the caller, every block of the kernel
\* it launched has finished: none is still to run, and every block has made
\* its stores and all its additions into gradTfms.
C8_ReturnAfterKernel ==
    pc = "returned" =>
        /\ DOMAIN blk = LaunchedBlocks(call)
        /\ \A g \in DOMAIN blk :
              /\ blk[g].phase = "done"
              /\ call.kind = "bwd" =>
                    /\ blk[g].seg = NumSegs(call.K)
                    /\ blk[g].merged = WorkingWarps(KArgs(call), g)

C8_Witness ==
    /\ pc = "returned"
    /\ call.kind = "bwd"
    /\ Cardinality(DOMAIN blk) = 2
    /\ \A g \in DOMAIN blk : blk[g].phase = "done" /\ blk[g].merged # {}

KernelExecuting == \E g \in DOMAIN blk : blk[g].phase # "done"

\* the current call got as far as launching its kernel
KernelLaunched == pc \in {"running", "returned"}

\* C9: every cache entry a task of the current call's kernel has read lies
\* below the number of scalars that call staged and holds the value of that
\* call's transforms; while a kernel executes, the staged entries are those
\* the call staged before the launch, so no task has written the cache.
C9_CacheStagedBeforeRead ==
    /\ KernelLaunched =>
          \A rd \in cacheReads :
             /\ rd[1] < stagedCount
             /\ rd[1] < ConstTfmsCapacity
             /\ rd[2] = TfmsData(call)[rd[1]]
    /\ KernelExecuting =>
          /\ stagedCount = NTfmParams(call)
          /\ \A i \in 0..(stagedCount - 1) : constTfms[i] = TfmsData(call)[i]

\* the second call's kernel has read the cache, which still holds, beyond
\* the staged entries, what the call before left there
C9_Witness ==
    /\ ncalls = 2
    /\ pc = "returned"
    /\ cacheReads # {}
    /\ Cardinality(DOMAIN constTfms) > stagedCount
    /\ \E i \in 0..(stagedCount - 1) : TfmsData(prev)[i] # TfmsData(call)[i]

AllGroups(in) == 0..(NumGroups(KArgs(in)) - 1)

\* what one backward call computes, by the kernel's own operators, with
\* nothing of the buffers' earlier contents in it
ScratchGradTfms(in) ==
    [j \in 0..(NTfmParams(in) - 1) |->
        Sum([g \in AllGroups(in) |->
                IF BwdCoordinates(KArgs(in), g, 0).b = j \div (in.K * 12)
                THEN SharedGradTfmResults(PointsData(in), MasksData(in), GradOutData(in),
                                          TfmsData(in), KArgs(in), g)[j % (in.K * 12)]
                ELSE 0],
            AllGroups(in))]
ScratchGradPoints(in) ==
    ApplyWrites([i \in 0..(3 * NPoints(in) - 1) |-> 0],
        UNION { GradPointWrites(KArgs(in), g,
                    BwdRegisters(PointsData(in), MasksData(in), GradOutData(in),
                                 TfmsData(in), KArgs(in), g)) : g \in AllGroups(in) })
ScratchGradMasks(in) ==
    ApplyWrites([i \in 0..(in.K * NPoints(in) - 1) |-> 0],
        UNION { GradMaskWrites(PointsData(in), MasksData(in), GradOutData(in),
                               TfmsData(in), KArgs(in), g) : g \in AllGroups(in) })

\* C10: when a backward call has returned, after whatever calls went before,
\* the three gradient buffers hold the gradients of this call alone: neither
\* what the buffers held before nor the additions of an earlier call are in
\* them.
C10_LatestCallOnly ==
    Returned("bwd") =>
        /\ gradPoints = ScratchGradPoints(call)
        /\ gradMasks = ScratchGradMasks(call)
        /\ gradTfms = ScratchGradTfms(call)

\* backward called twice with the same inputs
C10_Witness ==
    /\ ncalls = 2
    /\ Returned("bwd")
    /\ prev = call
    /\ \E j \in DOMAIN gradTfms : gradTfms[j] # 0
    /\ gradTfms = ScratchGradTfms(call)
----------------------------------------------------------------------------
(* Capacity *)

\* the bytes of scratch a backward block needs for K transforms: 16 x 16
\* tasks and K transforms, 12 floats each
ScratchBytes(K) == (BlockDimX * BlockDimY + K) * 3 * 4 * SizeofFloat

\* the call at hand is a call on 3D points
Called == call.kind # "none" /\ NdimOK(call)

\* the call at hand ended in a failure of its own (not one the device reported)
Rejected(e) == pc = "aborted" /\ err = e /\ ~cudaErr

\* the cache holds the transforms of the call at hand, all of them
StagedInFull ==
    /\ stagedCount = NTfmParams(call)
    /\ DOMAIN TfmsData(call) \subseteq DOMAIN constTfms
    /\ \E T \in {TfmsData(call)} : \A i \in DOMAIN T : constTfms[i] = T[i]

\* C5 as stated: every call with at most 15000 transform parameters
\* succeeds, every call with more fails with CapacityExceeded.
C5_AtMostCapacitySucceeds ==
    Called =>
        IF NTfmParams(call) <= ConstTfmsCapacity
        THEN ~Rejected("CapacityExceeded")
        ELSE Rejected("CapacityExceeded")

\* no block of the kernel at hand has taken a step
KernelAtLaunch == \A b \in DOMAIN blk : blk[b].phase = "ready"

\* C5, amended: a forward call with at most 15000 transform parameters, and
\* a backward call with at most 15000 whose scratch need (16*16 + K)*48
\* bytes is at most 32000, passes the checks, has all its B*K*12 parameters
\* staged (the count throughout, the cache entry by entry when its kernel
\* is launched and when the call has ended) and ends in no failure but one
\* the device reports; a backward call with at most 15000 parameters and a
\* larger scratch need fails with CapacityExceeded; a call with more than
\* 15000 parameters fails with CapacityExceeded and stages nothing, the
\* cache never holding more than 15000 entries.
C5_CapacityBoundary ==
    /\ stagedCount <= ConstTfmsCapacity
    /\ Cardinality(DOMAIN constTfms) <= ConstTfmsCapacity
    /\ Called =>
          IF NTfmParams(call) > ConstTfmsCapacity
          THEN /\ Rejected("CapacityExceeded")
               /\ stagedCount # NTfmParams(call)
          ELSE IF call.kind = "bwd" /\ ScratchBytes(call.K) > SharedMemLimit
          THEN Rejected("CapacityExceeded")
          ELSE /\ stagedCount = NTfmParams(call)
               /\ (KernelAtLaunch \/ pc # "running") => StagedInFull
               /\ err \in {"none", "ExecutionFailure"}
               /\ pc = "aborted" => (cudaErr /\ err = "ExecutionFailure")

\* a forward call with exactly 15000 transform parameters has returned,
\* every block of its kernel having stored its points
C5_Witness ==
    /\ Returned("fwd")
    /\ NTfmParams(call) = ConstTfmsCapacity
    /\ stagedCount = ConstTfmsCapacity
    /\ constTfms[ConstTfmsCapacity - 1] = TfmsData(call)[ConstTfmsCapacity - 1]
    /\ \A bid \in DOMAIN blk : blk[bid].phase = "done"
    /\ Cardinality(cacheReads) = ConstTfmsCapacity
----------------------------------------------------------------------------
(* Failures *)

\* no block of a kernel is waiting to run or running
NoTaskPending == {b \in DOMAIN blk : blk[b].phase # "done"} = {}

AllZero(buf) == \A i \in DOMAIN buf : buf[i] = 0

\* C11: a backward call that got past the checks of the entry point and
\* whose scratch footprint (16*16*12 + K*12 scalars of 4 bytes) is above
\* 32000 bytes has failed with CapacityExceeded without a launch: no block is
\* pending, no task has read the cache or stored a gradient; a backward call
\* whose footprint is within 32000 bytes does not fail with CapacityExceeded.
C11_ScratchCheckedBeforeLaunch ==
    (call.kind = "bwd" /\ NdimOK(call) /\ NTfmParams(call) <= ConstTfmsCapacity) =>
        IF ScratchBytes(call.K) > SharedMemLimit
        THEN /\ Rejected("CapacityExceeded")
             /\ NoTaskPending
             /\ cacheReads = {}
             /\ AllZero(gradPoints) /\ AllZero(gradTfms)
        ELSE err # "CapacityExceeded"

\* a backward call with 411 transforms was turned down after a backward call
\* that ran
C11_Witness ==
    /\ call.kind = "bwd" /\ call.K = 411
    /\ Rejected("CapacityExceeded")
    /\ prev.kind = "bwd" /\ ncalls = 2
    /\ NoTaskPending /\ DOMAIN blk # {}

\* C12: a call that has failed (CapacityExceeded, ExecutionFailure or a
\* failed assertion) has not returned, and once a call has failed nothing
\* happens any more: no return, no further launch, no block runs, no buffer
\* changes.
C12_FailureTerminal ==
    [][ /\ err' # "none" => pc' = "aborted"
        /\ pc = "aborted" => UNCHANGED vars ]_vars

\* the second call was launched, the device reported a failure, and the
\* launcher has ended the call
C12_Witness ==
    /\ pc = "aborted"
    /\ err = "ExecutionFailure"
    /\ ncalls = 2
    /\ cudaErr
----------------------------------------------------------------------------
(* Linearity in the upstream gradient *)

ScaledBuf(al, buf) == [i \in DOMAIN buf |-> al * buf[i]]

\* C13: the gradients a returned backward call leaves for the upstream
\* gradient alpha * gradOut are alpha times the gradients the same points,
\* weights and transforms give for gradOut.
C13_LinearInGradOut ==
    Returned("bwd") =>
        LET u == Scaled(call, 1)
        IN  /\ GradOutData(call) = ScaledBuf(call.alpha, GradOutData(u))
            /\ gradPoints = ScaledBuf(call.alpha, ScratchGradPoints(u))
            /\ gradMasks = ScaledBuf(call.alpha, ScratchGradMasks(u))
            /\ gradTfms = ScaledBuf(call.alpha, ScratchGradTfms(u))

\* a backward call with gradOut times 3 has returned gradients that are
\* not zero, after a call with gradOut times -2
C13_Witness ==
    /\ Returned("bwd")
    /\ call.alpha = 3
    /\ prev.alpha = -2
    /\ \E i \in DOMAIN gradPoints : gradPoints[i] # 0
    /\ \E i \in DOMAIN gradMasks : gradMasks[i] # 0
    /\ \E i \in DOMAIN gradTfms : gradTfms[i] # 0 /\ i % 4 = 3
----------------------------------------------------------------------------
(* Scaling of the fused loss *)

\* the count the averaging divides by
AveragedOver(in, avg) == IF avg THEN NElement(in) ELSE 1

\* C14: the value a returned fused loss forward hands its caller is the
\* launcher's summed error times 0.5, divided by the count of the points
\* tensor when averaging; a returned fused backward leaves each of the three
\* gradient buffers multiplied by the upstream scalar gradient, divided by
\* the same count when averaging.
C14_FusedLossScaling ==
    /\ (pc = "returned" /\ call.kind = "lossfwd") =>
          2 * AveragedOver(call, loss.avg) * loss.ret = loss.L
    /\ (pc = "returned" /\ call.kind = "lossbwd") =>
          /\ loss.val[2] = AveragedOver(call, loss.avg)
          /\ gradPoints = [i \in DOMAIN gradPoints |->
                             loss.go * LossGradData(3 * NPoints(call), call.pat)[i]]
          /\ gradMasks = [i \in DOMAIN gradMasks |->
                             loss.go * LossGradData(call.K * NPoints(call), call.pat + 1)[i]]
          /\ gradTfms = [i \in DOMAIN gradTfms |->
                             loss.go * LossGradData(NTfmParams(call), call.pat + 2)[i]]----------------------------------------------------------------------------
(* The reduction of a block, warp by warp *)

\* the 12 terms of transform k of the tasks of the running block within the
\* limits
BlockContributions(k) ==
    TaskContributions(PointsData(call), MasksData(call), GradOutData(call), constTfms,
                      KArgs(call), bk.g, k, WithinTids(KArgs(call), bk.g))

\* C15: whatever the order in which the warps run between the barriers, once
\* the warp-level finish of transform k has stored result slot k*12+i, the
\* slot holds the sum over the tasks of the block of their i-th term for
\* transform k (a task outside the limits contributes zero)
C15_ReductionExact ==
    (bk.g >= 0 /\ bk.finished # {}) =>
        \A k \in bk.finished :
            \A contrib \in {BlockContributions(k)} :
                \A i \in 0..(NumTfmParams - 1) :
                    SlotAt(shm.sh, NSharedGrads + k * NumTfmParams + i)
                      = Sum([tid \in DOMAIN contrib |-> contrib[tid][i]], DOMAIN contrib)

\* both transforms of a block with tasks within the limits in every warp are
\* finished, with result slots that are not zero
C15_Witness ==
    /\ bk.g >= 0
    /\ bk.finished = {0, 1}
    /\ \A w \in 0..(NWarps - 1) : Lanes(w) \cap WithinTids(KArgs(call), bk.g) # {}
    /\ \A k \in {0, 1} : \E i \in 0..5 : SlotAt(shm.sh, NSharedGrads + k * NumTfmParams + i) # 0
    /\ \A k \in {0, 1} : \E i \in 6..11 : SlotAt(shm.sh, NSharedGrads + k * NumTfmParams + i) # 0
\* C16: no scratch slot is written by one task and read or written by
\* another task without a barrier between the two accesses: not inside a
\* halving round, not between the last round and the warp-level finish, not
\* between the finish of transform k and the stores of transform k+1 (which
\* no barrier separates), not between the writes of the result slots and
\* their reads for the atomic adds
C16_NoScratchRace == shm.races = {}

\* warp 0 has read the reduced slots in the warp-level finish of transform
\* 0 and warp 1 has stored its terms of transform 1, with no barrier between
\* the two
C16_Witness ==
    /\ bk.g >= 0
    /\ shm.races = {}
    /\ bk.finished = {0}
    /\ Seg(bk.wpos[1], call.K) = [op |-> "store", k |-> 1, s |-> 0]
    /\ At(shm.rd, 0) = 0
    /\ At(shm.wr, WarpSize) = WarpSize
\* the barriers a task of a block with K transforms passes: one after the
\* stores and one after each halving round for each transform, and the last
BarriersPerTask(K) == K * (1 + Len(HalvingStrides(NThreads2))) + 1

\* C17: the tasks of a block, within the limits or outside, arrive at every
\* barrier together: whenever a barrier lets the block go on all tasks have
\* arrived the same number of times, at the end of the kernel each has
\* arrived 4K+1 times, and every backward launch comes to an end
C17_BarriersUniformLaunchTerminates ==
    /\ [](bk.g >= 0 =>
            /\ barrier.waiting = 0..(NThreads - 1) =>
                 \A tid \in 0..(NThreads - 1) : barrier.arrivals[tid] = barrier.arrivals[0]
            /\ {w \in DOMAIN bk.wpos : bk.wpos[w] < NumSegs(call.K)} = {} =>
                 \A tid \in 0..(NThreads - 1) : barrier.arrivals[tid] = 4 * call.K + 1)
    /\ (pc = "running") ~> (pc \in {"returned", "aborted"})

\* a backward call has returned whose block had tasks outside the limits:
\* they have passed as many barriers as the tasks within
C17_Witness ==
    /\ Returned("bwd")
    /\ bk.g = -1
    /\ WithinTids(KArgs(call), 0) \notin {{}, 0..(NThreads - 1)}
    /\ \A tid \in 0..(NThreads - 1) : barrier.arrivals[tid] = BarriersPerTask(call.K)
    /\ BarriersPerTask(call.K) = 4 * call.K + 1----------------------------------------------------------------------------
(* Ownership of the cells in a backward launch *)

\* the tasks of a backward launch: <<group, task in the group>>
LaunchedTasks(in) == AllGroups(in) \X (0..(NThreads - 1))

\* the stores listed in st, a sequence of addresses for each task:
\* <<task, place in the task's sequence, address>>
StoreEvents(st) ==
    UNION { { <<o, n, st[o][n]>> : n \in DOMAIN st[o] } : o \in DOMAIN st }

\* C18: in a backward launch that has returned, with the grid (ceil(C/16),
\* ceil(R/16), B) of 16x16 groups, every cell (b,r,c) within the range is the cell of exactly
\* one task; that task stores once to gradPoints[b,:,r,c] and once to
\* gradMasks[b,k,r,c] for each k; every address of the two buffers is
\* stored to exactly once in the launch; a task outside the range stores to
\* neither buffer
C18_EachCellOneTask ==
    Returned("bwd") =>
        \A a \in {KArgs(call)} :
        \A co \in {[o \in LaunchedTasks(call) |-> BwdCoordinates(a, o[1], o[2])]} :
        \A ps \in {[o \in DOMAIN co |-> TaskPointStores(a, co[o])]},
           ms \in {[o \in DOMAIN co |-> TaskMaskStores(a, co[o])]} :
        \A pev \in {StoreEvents(ps)}, mev \in {StoreEvents(ms)},
           in \in {{o \in DOMAIN co : co[o].r < call.R /\ co[o].c < call.C}} :
            /\ NumGroups(a) = CeilDiv(call.C, 16) * CeilDiv(call.R, 16) * call.B
            /\ \A b \in Batches(call), r \in Rows(call), c \in Cols(call) :
                 \A own \in {{o \in in : co[o].b = b /\ co[o].r = r /\ co[o].c = c}} :
                    /\ Cardinality(own) = 1
                    /\ \A o \in own :
                         /\ ps[o] = [ch \in 1..3 |-> Idx4(call, 3, b, ch - 1, r, c)]
                         /\ ms[o] = [k \in 1..call.K |-> Idx4(call, call.K, b, k - 1, r, c)]
            /\ \A addr \in DOMAIN gradPoints : Cardinality({e \in pev : e[3] = addr}) = 1
            /\ \A addr \in DOMAIN gradMasks : Cardinality({e \in mev : e[3] = addr}) = 1
            /\ {e \in pev \cup mev : e[1] \notin in} = {}
            /\ \A g \in AllGroups(call) :
                 { w[1] : w \in GradPointWrites(a, g, [tid \in WithinTids(a, g) |->
                                                          <<0, 0, 0>>]) }
                   = { e[3] : e \in {x \in pev : x[1][1] = g} }

\* a backward call over two groups, each with tasks within the range and
\* tasks outside, has returned with every block having stored its gradients
C18_Witness ==
    /\ Returned("bwd")
    /\ NumGroups(KArgs(call)) = 2
    /\ \A g \in AllGroups(call) :
         /\ WithinTids(KArgs(call), g) \notin {{}, 0..(NThreads - 1)}
         /\ blk[g].phase = "done" /\ blk[g].merged # {}
    /\ \E i \in DOMAIN gradMasks : gradMasks[i] # 0
----------------------------------------------------------------------------
(* The merges into gradTfms *)

\* the addresses of gradTfms that hold transform k of the batch of block g
TfmAddresses(a, g, k) ==
    { BwdCoordinates(a, g, 0).b * a.ts[1] + k * NumTfmParams + i :
        i \in 0..(NumTfmParams - 1) }

\* C19: in a backward launch every atomic add into gradTfms comes from a
\* block that is past its final barrier and goes to a parameter of a transform
\* of the block's own batch, at most once for each block and address; when the
\* call has returned each block has added exactly once to each of the 12
\* parameters of each transform, so that the merges of 12-vectors number
\* numGroups x K whatever the number of points in a block
C19_OneMergePerGroupAndTransform ==
    (call.kind = "bwd" /\ KernelLaunched) =>
        \A a \in {KArgs(call)} :
          /\ \A e \in BagToSet(atomicLog) :
               /\ e[1] \in DOMAIN blk
               /\ Seg(blk[e[1]].seg, call.K).op = "merge"
               /\ \E k \in 0..(call.K - 1) : e[2] \in TfmAddresses(a, e[1], k)
               /\ CopiesIn(e, atomicLog) = 1
          /\ \A g \in DOMAIN blk : \A k \in 0..(call.K - 1) :
               blk[g].phase = "done"
                  => \A addr \in TfmAddresses(a, g, k) : CopiesIn(<<g, addr>>, atomicLog) = 1
          /\ Returned("bwd") =>
               BagCardinality(atomicLog) = NumGroups(a) * call.K * NumTfmParams

\* a backward call over two blocks of 16 points each has returned after 24
\* atomic adds, 12 from each block
C19_Witness ==
    /\ Returned("bwd")
    /\ NumGroups(KArgs(call)) = 2
    /\ \A g \in AllGroups(call) : Cardinality(WithinTids(KArgs(call), g)) = 16
    /\ BagCardinality(atomicLog) = 2 * NumTfmParams
    /\ \A g \in AllGroups(call) : \A addr \in TfmAddresses(KArgs(call), g, 0) :
         CopiesIn(<<g, addr>>, atomicLog) = 1
----------------------------------------------------------------------------
(* Visibility and flow of the cells *)

AbsVal(x) == IF x < 0 THEN -x ELSE x

\* q is an integer nearest to num / den
Nearest(num, den, q) == 2 * AbsVal(num - q * den) <= AbsVal(den)

InImage(in, t) == t[1] \in 0..(in.R - 1) /\ t[2] \in 0..(in.C - 1)

\* the point of cell (b, r, c) in a cloud of the call
CloudPoint(in, buf, b, r, c) == [d \in 1..3 |-> buf[Idx4(in, 3, b, d - 1, r, c)]]

\* the search window around a pixel: winsize rows and columns from
\* floor(winsize / 2) before it
SearchWindow(in, pixel) ==
    ((pixel[1] - in.winsize \div 2)..(pixel[1] - in.winsize \div 2 + in.winsize - 1))
      \X ((pixel[2] - in.winsize \div 2)..(pixel[2] - in.winsize \div 2 + in.winsize - 1))

\* the target cells a cell (b, r, c) of label mi may be matched with in a
\* direction, its pixel given: in the window, in the image, of the same label
\* and at a squared local distance below threshold^2
MatchCandidates(in, o, b, r, c, pixel) ==
    { t \in SearchWindow(in, pixel) :
        /\ InImage(in, t)
        /\ o.label2[Idx4(in, 1, b, 0, t[1], t[2])] = o.label1[Idx4(in, 1, b, 0, r, c)]
        /\ SqDist(CloudPoint(in, o.local1, b, r, c), CloudPoint(in, o.local2, b, t[1], t[2]))
             < in.threshold * in.threshold }

\* t comes before u in a row-major scan
ScannedBefore(t, u) == t[1] < u[1] \/ (t[1] = u[1] /\ t[2] < u[2])

\* m is the candidate of least squared distance, the first scanned on ties
IsMatch(in, o, b, r, c, cands, m) ==
    /\ m \in cands
    /\ \A u \in cands \ {m} :
         \E dm \in {SqDist(CloudPoint(in, o.local1, b, r, c),
                           CloudPoint(in, o.local2, b, m[1], m[2]))},
            du \in {SqDist(CloudPoint(in, o.local1, b, r, c),
                           CloudPoint(in, o.local2, b, u[1], u[2]))} :
              dm < du \/ (dm = du /\ ScannedBefore(m, u))

\* the pixel a cell projects to: where the pose of its label takes its local
\* point, divided by the depth, scaled and shifted by the intrinsics and
\* rounded; with depth 0 the pixel is whatever the conversion to int gave
ProjectsTo(in, o, b, r, c, pixel) ==
    \A pp \in {ApplyPose(o.poses2,
                         (b * in.NP + o.label1[Idx4(in, 1, b, 0, r, c)]) * NumTfmParams,
                         CloudPoint(in, o.local1, b, r, c))} :
       pp[3] # 0 => /\ Nearest(pp[2] * in.fy + in.cy * pp[3], pp[3], pixel[1])
                    /\ Nearest(pp[1] * in.fx + in.cx * pp[3], pp[3], pixel[2])

\* the outputs of a direction are as C20 says for every cell
FlowSettled(dir) ==
    \A in \in {fv.in}, o \in {FlowOperands(fv, dir)} :
      \A b \in 0..(in.B - 1), r \in 0..(in.R - 1), c \in 0..(in.C - 1) :
        \E vis \in {fv.vis[dir][Idx4(in, 1, b, 0, r, c)]},
           flow \in {CloudPoint(in, fv.flows[dir], b, r, c)} :
          IF o.label1[Idx4(in, 1, b, 0, r, c)] = 0
          THEN vis = 1 /\ flow = [d \in 1..3 |-> 0]
          ELSE \E pixel \in {fv.pix[dir][Idx4(in, 1, b, 0, r, c)]} :
                 /\ ProjectsTo(in, o, b, r, c, pixel)
                 /\ IF InImage(in, pixel) /\ MatchCandidates(in, o, b, r, c, pixel) # {}
                    THEN /\ vis = 1
                         /\ \E m \in MatchCandidates(in, o, b, r, c, pixel) :
                              /\ IsMatch(in, o, b, r, c, MatchCandidates(in, o, b, r, c, pixel), m)
                              /\ flow = [d \in 1..3 |->
                                           CloudPoint(in, o.cloud2, b, m[1], m[2])[d]
                                             - CloudPoint(in, o.cloud1, b, r, c)[d]]
                    ELSE vis = 0 /\ flow = [d \in 1..3 |-> 0]

\* C20: after compute_visibility_and_flows on zero-filled outputs, in either
\* direction, every background cell (label 0) is visible with zero flow;
\* every other cell is visible with flow cloud2[match] - cloud1[cell] exactly
\* when the pixel it projects to is in the image and the window around the
\* pixel holds a target cell in the image with the same label and a squared
\* local distance below threshold^2, the match being the candidate of least
\* squared distance and the first in a row-major scan on ties; every other
\* cell is not visible and has zero flow
C20_VisibilityAndFlowPerCell ==
    /\ fv.stage \in {"bwd", "freeing", "returned"} => FlowSettled("fwd")
    /\ fv.stage \in {"freeing", "returned"} => FlowSettled("bwd")

\* a call has returned in which, from the first frame to the second, a cell
\* was matched with the first of two candidates at the same least distance
\* and got a flow that is not zero, a background cell is visible, and a cell
\* that is not background found no match
C20_Witness ==
    /\ fv.stage = "returned"
    /\ \E in \in {fv.in}, o \in {FlowOperands(fv, "fwd")} :
         /\ \E b \in 0..(in.B - 1), r \in 0..(in.R - 1), c \in 0..(in.C - 1) :
              /\ o.label1[Idx4(in, 1, b, 0, r, c)] # 0
              /\ fv.vis["fwd"][Idx4(in, 1, b, 0, r, c)] = 1
              /\ CloudPoint(in, fv.flows["fwd"], b, r, c) # [d \in 1..3 |-> 0]
              /\ \E cands \in {MatchCandidates(in, o, b, r, c,
                                               fv.pix["fwd"][Idx4(in, 1, b, 0, r, c)])} :
                   \E m \in cands, u \in cands :
                      /\ m # u
                      /\ IsMatch(in, o, b, r, c, cands, m)
                      /\ SqDist(CloudPoint(in, o.local1, b, r, c),
                                CloudPoint(in, o.local2, b, m[1], m[2]))
                           = SqDist(CloudPoint(in, o.local1, b, r, c),
                                    CloudPoint(in, o.local2, b, u[1], u[2]))
         /\ \E b \in 0..(in.B - 1), r \in 0..(in.R - 1), c \in 0..(in.C - 1) :
              /\ o.label1[Idx4(in, 1, b, 0, r, c)] = 0
              /\ fv.vis["fwd"][Idx4(in, 1, b, 0, r, c)] = 1
         /\ \E b \in 0..(in.B - 1), r \in 0..(in.R - 1), c \in 0..(in.C - 1) :
              /\ o.label1[Idx4(in, 1, b, 0, r, c)] # 0
              /\ fv.vis["fwd"][Idx4(in, 1, b, 0, r, c)] = 0
----------------------------------------------------------------------------
(* Release of the contiguous copies *)

\* C21: when an entry point (the forward or backward of the transform layer
\* or of the fused loss, or ComputeFlowAndVisibility_Pts_float) has returned
\* successfully, the contiguous copies the call acquired are the ones it
\* freed, each once: none is left acquired and none is freed twice
C21_AcquiredAreFreed ==
    (pc = "returned" \/ fv.stage = "returned") => held.acquired = held.freed
====
